---- MODULE Spec2Model ----
(***************************************************************************)
(* PriceNexus (rohitmemco/search-tool): the POST /api/search request       *)
(* pipeline of the FastAPI backend, the SearchPage component's             *)
(* handleSearch of the React frontend, and the location/currency resolver. *)
(***************************************************************************)
EXTENDS Integers, Sequences, FiniteSets, TLC

(***************************************************************************)
(* Bounds of the model.                                                    *)
(***************************************************************************)
MaxQueryLen == 2        \* query strings are sequences of at most this many characters
MaxRequests == 2        \* search requests issued in one behaviour
MaxPerFetcher == 1      \* listings one fetcher returns for one request
MaxCap == 2             \* largest max_results an API client asks for (scaled down)
MaxWords == 2           \* words in a query handed to the location resolver

(***************************************************************************)
(* Query strings.  A query is a sequence of characters; " " is whitespace, *)
(* "a" stands for any other character.                                     *)
(***************************************************************************)
Chars == {" ", "a"}

RECURSIVE SeqsUpTo(_, _)
SeqsUpTo(S, n) ==
    IF n = 0 THEN {<<>>}
    ELSE LET shorter == SeqsUpTo(S, n - 1)
         IN  shorter \cup {Append(s, c) : s \in {t \in shorter : Len(t) = n - 1}, c \in S}

Queries == SeqsUpTo(Chars, MaxQueryLen)

RECURSIVE TrimStart(_)
TrimStart(s) == IF s # <<>> /\ Head(s) = " " THEN TrimStart(Tail(s)) ELSE s

RECURSIVE TrimEnd(_)
TrimEnd(s) ==
    IF s # <<>> /\ s[Len(s)] = " " THEN TrimEnd(SubSeq(s, 1, Len(s) - 1)) ELSE s

\* String.prototype.trim
Trim(s) == TrimEnd(TrimStart(s))

Min(a, b) == IF a <= b THEN a ELSE b

(***************************************************************************)
(* State.                                                                  *)
(***************************************************************************)
VARIABLES
    apiKeys,      \* backend/.env: the keyed fetchers whose API key is configured
    phase,        \* request id -> its state in the orchestrator's state machine
    cur,          \* the request the backend is serving (0: none yet)
    req,          \* the SearchRequest being served: query, max_results, origin
    intent,       \* the ProductIntent of the request being served
    call,         \* the external call the request is waiting for
    aiCalls,      \* external AI calls made for the request being served
    fi,           \* position in FetcherOrder of the next fetcher to try
    outcome,      \* fetcher -> what it did for the request being served
    raw,          \* raw listings merged from the fetchers, in fetcher order
    sources,      \* how Source Discovery produced the marketplace list
    results,      \* normalized ProductResults (after Normalizing), then capped
    resp,         \* the HTTP response of the request being served
    posted,       \* number of search requests posted so far (by any client)
    net,          \* requests the page has posted that the backend has not received yet
    replies,      \* request id -> the response on its way back to the page
    query,        \* SearchPage state: the text of the search input
    isLoading,    \* SearchPage state
    searchResults,\* SearchPage state: null or the data of the last response
    history,      \* useSearchHistory state, most recent first
    toast,        \* the last notification shown
    awaiting,     \* the handleSearch calls suspended at "await axios.post": id -> q.trim()
    submitted,    \* the handleSearch call that posted a request last (0: none yet)
    shown,        \* the handleSearch call whose response searchResults holds (0: null)
    locQuery,     \* the words of the query handed to the location resolver
    location,     \* the LocationContext resolved for locQuery
    relevant,     \* store -> whether the store is relevant for locQuery's product
    osmCity,      \* local-store fetcher: the city whose stores are asked for
    osmNext,      \* local-store fetcher: position of the next map-data server to try
    osmCall,      \* local-store fetcher: the server the fetcher is waiting for (0: none)
    osmLog,       \* local-store fetcher: the servers contacted, with what each did
    osmResult,    \* local-store fetcher: what it returned
    cache,        \* source-discovery cache: a set of entries [key, list]
    rcKey,        \* discovery of a request: its (category, region) key
    rcPc,         \* discovery of a request: where it is
    rcCall,       \* discovery of a request: the discovery call it issued (0: none)
    rcList,       \* discovery of a request: the source list it obtained
    discoveries,  \* number of external discovery calls issued so far
    vnMarket,     \* vendor enrichment: the marketplace of the result
    vnType,       \* vendor enrichment: the source type of the search
    vnCity,       \* vendor enrichment: the city of the search
    vendor,       \* vendor enrichment: the vendor block of the result
    vnShown,      \* vendor enrichment: the contact each view of the page presents
    compareList,  \* useCompare: the state of the hook
    compareSeen,  \* useCompare: the compareList of the last render, which the handlers read
    compareCalls, \* useCompare: handler calls since the last render
    compareToast, \* useCompare: the last toast
    cvPrice,      \* currency switcher: the price of the product, a number
    cvFrom,       \* currency switcher: the currency of the price
    cvTo,         \* currency switcher: the selected currency
    cvOut,        \* currency switcher: the converted price
    cvBack,       \* currency switcher: the converted price, converted back
    isDark,       \* useDarkMode: the state of the hook
    darkClass,    \* useDarkMode: the document element has the class "dark"
    favorites,    \* useFavorites: the state of the hook
    localStorage, \* the browser's localStorage: key -> stored text, NoItem when absent
    effects,      \* the keys whose useEffect is due to run
    hookCalls,    \* calls of the hooks' handlers so far
    shownResults, \* results of the search response the page shows
    filters,      \* the filters of the page
    sortBy,       \* the sort order of the page
    filteredResults, \* the filtered and sorted results the page renders
    shownCurrency,\* currency_code of the results of the response the page shows
    selectedCurrency, \* the currency selected in the currency switcher
    chartPrices,  \* price distribution chart: the prices of the results it is given
    buckets       \* price distribution chart: the counts of its six buckets (empty before it renders)

backendVars == <<apiKeys, phase, cur, req, intent, call, aiCalls, fi, outcome, raw,
                 sources, results, resp>>
wireVars == <<posted, net, replies>>
pageVars == <<query, isLoading, searchResults, history, toast, awaiting, submitted, shown>>

locVars == <<locQuery, location, relevant>>

storeVars == <<osmCity, osmNext, osmCall, osmLog, osmResult>>

cacheVars == <<cache, rcKey, rcPc, rcCall, rcList, discoveries>>

vendorVars == <<vnMarket, vnType, vnCity, vendor, vnShown>>

compareVars == <<compareList, compareSeen, compareCalls, compareToast>>

currencyVars == <<cvPrice, cvFrom, cvTo, cvOut, cvBack>>

hookVars == <<isDark, darkClass, favorites, localStorage, effects, hookCalls>>

filterVars == <<shownResults, filters, sortBy, filteredResults>>

displayVars == <<shownCurrency, selectedCurrency>>

chartVars == <<chartPrices, buckets>>

\* The state of the features that are modelled on their own.
featureVars == <<storeVars, cacheVars, vendorVars, compareVars, currencyVars, hookVars, filterVars, displayVars, chartVars>>

\* All but one feature.
besidesStores == <<backendVars, wireVars, pageVars, locVars, cacheVars, vendorVars, compareVars, currencyVars, hookVars, filterVars, displayVars, chartVars>>
besidesCache == <<backendVars, wireVars, pageVars, locVars, storeVars, vendorVars, compareVars, currencyVars, hookVars, filterVars, displayVars, chartVars>>
besidesVendors == <<backendVars, wireVars, pageVars, locVars, storeVars, cacheVars, compareVars, currencyVars, hookVars, filterVars, displayVars, chartVars>>
besidesCompare == <<backendVars, wireVars, pageVars, locVars, storeVars, cacheVars, vendorVars, currencyVars, hookVars, filterVars, displayVars, chartVars>>
besidesCurrency == <<backendVars, wireVars, pageVars, locVars, storeVars, cacheVars, vendorVars, compareVars, hookVars, filterVars, displayVars, chartVars>>
besidesHooks == <<backendVars, wireVars, query, isLoading, searchResults, awaiting, submitted, shown, locVars, storeVars, cacheVars, vendorVars, compareVars, currencyVars, filterVars, displayVars, chartVars>>
besidesFilters == <<backendVars, wireVars, pageVars, locVars, storeVars, cacheVars, vendorVars, compareVars, currencyVars, hookVars, displayVars, chartVars>>
besidesDisplay == <<backendVars, wireVars, pageVars, locVars, storeVars, cacheVars, vendorVars, compareVars, currencyVars, hookVars, filterVars, chartVars>>
besidesChart == <<backendVars, wireVars, pageVars, locVars, storeVars, cacheVars, vendorVars, compareVars, currencyVars, hookVars, filterVars, displayVars>>

vars == <<backendVars, wireVars, pageVars, locVars, featureVars>>

(***************************************************************************)
(* Backend: POST /api/search.                                              *)
(***************************************************************************)
RequestIds == 1..MaxRequests

\* The sources, in the order the backend tries them.
FetcherOrder == <<"snapdeal", "websearch", "rapidapi", "serpapi">>
Fetchers == {FetcherOrder[i] : i \in 1..Len(FetcherOrder)}
\* RAPIDAPI_KEY, SERPAPI_API_KEY: the fetchers tried only "if configured".
NeedsKey == {"rapidapi", "serpapi"}

MinQueryLen == 2

NoIntent == [searchable |-> FALSE, canonical_name |-> <<>>, brands |-> <<>>, by |-> "none"]
NoRequest == [query |-> <<>>, max_results |-> 0, origin |-> "none"]
NoResponse == [status |-> 0]
NoOutcome == [f \in Fetchers |-> "untried"]
\* useState(null)
Null == [status |-> -1]
\* `undefined`, as a value no query string equals.
Undefined == <<"undefined">>
NotAwaiting == <<"-">>

\* What the AI may answer for a product: a name of its own and a brand list.
AiName == <<"P">>
AiBrands == {<<"B">>}

Phases == {"None", "Rejected", "Received", "IntentResolved", "Unsearchable",
           "SourcesDiscovered", "Fetching", "Normalizing", "Capped", "Summarized",
           "Done", "Failed"}
Active == {"Received", "IntentResolved", "SourcesDiscovered", "Fetching",
           "Normalizing", "Capped", "Summarized"}
Finished == {"Rejected", "Done", "Failed"}

Idle == IF cur = 0 THEN TRUE ELSE phase[cur] \in Finished
Serving(p) == IF cur = 0 THEN FALSE ELSE phase[cur] = p

\* A validation that only refuses the empty query.
InvalidQueryEmptyOnly(q) == q = <<>>

\* if not query or len(query) < 2: raise HTTPException(status_code=400, ...)
InvalidQuery(q) == q = <<>> \/ Len(q) < MinQueryLen

BadRequest == [status |-> 400, detail |-> "Query must be at least 2 characters"]

\* product_data.get("is_searchable", True), with the default taken whatever the AI said.
is_searchable_default(product_data) == TRUE

\* product_data.get("is_searchable", True)
is_searchable(product_data) == product_data.searchable

\* The unavailable response without its message.
SearchUnavailableNoMessage(q) ==
    [status |-> 200, success |-> FALSE, query |-> q, message |-> "null",
     results |-> <<>>, results_count |-> 0]

\* return SearchResponse(success=False, message="Search Unavailable", results=[], results_count=0)
SearchUnavailableResponse(q) ==
    [status |-> 200, success |-> FALSE, query |-> q, message |-> "Search Unavailable",
     results |-> <<>>, results_count |-> 0]

\* An error response that carries what had been collected so far.
ServerErrorWithPartial == [status |-> 500, detail |-> "str(e)", results |-> results]

\* except Exception as e: raise HTTPException(status_code=500, detail=str(e))
ServerError == [status |-> 500, detail |-> "str(e)"]

SearchResponse(q, rs) ==
    [status |-> 200, success |-> TRUE, query |-> q, message |-> "null",
     results |-> rs, results_count |-> Len(rs)]

\* A fallback that gives up on the query instead.
HeuristicIntentUnsearchable(q) ==
    [searchable |-> FALSE, canonical_name |-> q, brands |-> <<>>, by |-> "heuristic"]

\* Fallback when the AI call fails: the raw query passes through as the product name.
HeuristicIntent(q) ==
    [searchable |-> TRUE, canonical_name |-> q, brands |-> <<>>, by |-> "heuristic"]

AiIntent(searchable, brands) ==
    [searchable |-> searchable, canonical_name |-> AiName, brands |-> brands, by |-> "ai"]

\* The listings a fetcher returned: n of them, tagged with the fetcher.
Listings(f, n) == [k \in 1..n |-> [src |-> f, n |-> k]]

\* Result Normalizer: one ProductResult per raw listing, from that listing alone.
NormalizeListing(l) == [source |-> l.src, n |-> l.n, live |-> TRUE]

Normalize(ls) == [i \in 1..Len(ls) |-> NormalizeListing(ls[i])]

\* An aggregator that does not cut the merged list.
NoTruncate(rs, m) == rs

\* Aggregator: the merged list is cut to max_results once, after the merge.
Truncate(rs, m) == SubSeq(rs, 1, Min(Len(rs), m))

CurrentFetcher == FetcherOrder[fi]
Unconfigured(f) == f \in NeedsKey /\ f \notin apiKeys

SetPhase(p) == phase' = [phase EXCEPT ![cur] = p]

\* The response travels back to the client; the page's is kept until its handler resumes.
Reply(id, o, r) == replies' = IF o = "ui" THEN [replies EXCEPT ![id] = r] ELSE replies

(***************************************************************************)
(* The request handler, one action per step.                               *)
(***************************************************************************)
\* A client posts {query, max_results}; the handler validates the query first.
search(id, q, m, o) ==
    /\ Idle
    /\ cur' = id
    /\ req' = [query |-> q, max_results |-> m, origin |-> o]
    /\ intent' = NoIntent
    /\ call' = "none"
    /\ aiCalls' = 0
    /\ fi' = 1
    /\ outcome' = NoOutcome
    /\ raw' = <<>>
    /\ sources' = "none"
    /\ results' = <<>>
    /\ IF InvalidQuery(q)
         THEN /\ phase' = [phase EXCEPT ![id] = "Rejected"]
              /\ resp' = BadRequest
              /\ Reply(id, o, BadRequest)
         ELSE /\ phase' = [phase EXCEPT ![id] = "Received"]
              /\ resp' = NoResponse
              /\ UNCHANGED replies
    /\ UNCHANGED apiKeys

\* Any HTTP client (curl, the API docs page) posts a request of its own.
ApiClientPost ==
    /\ posted < MaxRequests
    /\ posted' = posted + 1
    /\ \E q \in Queries, m \in 1..MaxCap : search(posted + 1, q, m, "api")
    /\ UNCHANGED <<net, pageVars, locVars, featureVars>>

\* detect_product_with_ai: the external completion call is issued ...
DetectCall ==
    /\ Serving("Received")
    /\ call = "none"
    /\ call' = "ai_detect"
    /\ aiCalls' = aiCalls + 1
    /\ UNCHANGED <<apiKeys, phase, cur, req, intent, fi, outcome, raw, sources, results, resp>>
    /\ UNCHANGED <<wireVars, pageVars, locVars, featureVars>>

\* ... and answers with a structured reply,
DetectReply ==
    /\ Serving("Received")
    /\ call = "ai_detect"
    /\ \E s \in BOOLEAN, b \in AiBrands : intent' = AiIntent(s, b)
    /\ call' = "none"
    /\ SetPhase("IntentResolved")
    /\ UNCHANGED <<apiKeys, cur, req, aiCalls, fi, outcome, raw, sources, results, resp>>
    /\ UNCHANGED <<wireVars, pageVars, locVars, featureVars>>

\* ... or raises, or does not answer within the client's timeout: heuristic intent.
DetectFallback ==
    /\ Serving("Received")
    /\ call = "ai_detect"
    /\ intent' = HeuristicIntent(req.query)
    /\ call' = "none"
    /\ SetPhase("IntentResolved")
    /\ UNCHANGED <<apiKeys, cur, req, aiCalls, fi, outcome, raw, sources, results, resp>>
    /\ UNCHANGED <<wireVars, pageVars, locVars, featureVars>>

DetectError == DetectFallback
DetectTimeout == DetectFallback

\* if not product_data.get("is_searchable", True): return SearchResponse(success=False, ...)
ShortCircuit ==
    /\ Serving("IntentResolved")
    /\ ~is_searchable(intent)
    /\ resp' = SearchUnavailableResponse(req.query)
    /\ SetPhase("Unsearchable")
    /\ UNCHANGED <<apiKeys, cur, req, intent, call, aiCalls, fi, outcome, raw, sources, results>>
    /\ UNCHANGED <<wireVars, pageVars, locVars, featureVars>>

\* discover_marketplaces_with_ai: the discovery call is issued ...
DiscoverCall ==
    /\ Serving("IntentResolved")
    /\ is_searchable(intent)
    /\ call = "none"
    /\ call' = "ai_discover"
    /\ aiCalls' = aiCalls + 1
    /\ UNCHANGED <<apiKeys, phase, cur, req, intent, fi, outcome, raw, sources, results, resp>>
    /\ UNCHANGED <<wireVars, pageVars, locVars, featureVars>>

DiscoverDone(how) ==
    /\ Serving("IntentResolved")
    /\ call = "ai_discover"
    /\ sources' = how
    /\ call' = "none"
    /\ SetPhase("SourcesDiscovered")
    /\ UNCHANGED <<apiKeys, cur, req, intent, aiCalls, fi, outcome, raw, results, resp>>
    /\ UNCHANGED <<wireVars, pageVars, locVars, featureVars>>

\* ... and answers with a marketplace list,
DiscoverReply == DiscoverDone("discovered")
\* ... or fails, or times out: the static per-category table.
DiscoverError == DiscoverDone("static")
DiscoverTimeout == DiscoverDone("static")

BeginFetching ==
    /\ Serving("SourcesDiscovered")
    /\ SetPhase("Fetching")
    /\ UNCHANGED <<apiKeys, cur, req, intent, call, aiCalls, fi, outcome, raw, sources, results, resp>>
    /\ UNCHANGED <<wireVars, pageVars, locVars, featureVars>>

FetchNext(f, how, ls) ==
    /\ outcome' = [outcome EXCEPT ![f] = how]
    /\ raw' = raw \o ls
    /\ fi' = fi + 1
    /\ call' = "none"
    /\ UNCHANGED <<apiKeys, phase, cur, req, intent, aiCalls, sources, results, resp>>
    /\ UNCHANGED <<wireVars, pageVars, locVars, featureVars>>

\* A keyed fetcher whose key is not configured is skipped, silently.
FetchSkip ==
    /\ Serving("Fetching")
    /\ call = "none"
    /\ fi <= Len(FetcherOrder)
    /\ Unconfigured(CurrentFetcher)
    /\ FetchNext(CurrentFetcher, "skipped", <<>>)

FetchCall ==
    /\ Serving("Fetching")
    /\ call = "none"
    /\ fi <= Len(FetcherOrder)
    /\ ~Unconfigured(CurrentFetcher)
    /\ call' = CurrentFetcher
    /\ UNCHANGED <<apiKeys, phase, cur, req, intent, aiCalls, fi, outcome, raw, sources, results, resp>>
    /\ UNCHANGED <<wireVars, pageVars, locVars, featureVars>>

\* The source answers with n listings (none: it found nothing).
FetchReply ==
    /\ Serving("Fetching")
    /\ call \in Fetchers
    /\ \E n \in 0..MaxPerFetcher :
          FetchNext(call, IF n = 0 THEN "empty" ELSE "data", Listings(call, n))

\* A fetcher whose exception is not caught: it ends the whole request.
FetchFailedAborts ==
    /\ Serving("Fetching")
    /\ call \in Fetchers
    /\ resp' = [status |-> 500, detail |-> "str(e)"]
    /\ SetPhase("Failed")
    /\ Reply(cur, req.origin, [status |-> 500, detail |-> "str(e)"])
    /\ intent' = NoIntent
    /\ call' = "none"
    /\ aiCalls' = 0
    /\ fi' = 1
    /\ outcome' = NoOutcome
    /\ raw' = <<>>
    /\ sources' = "none"
    /\ results' = <<>>
    /\ UNCHANGED <<apiKeys, cur, req, posted, net, pageVars, locVars, featureVars>>

\* The fetcher raises (blocked, structure change, invalid key, quota exceeded) or the
\* source does not answer within the HTTP client's timeout: the exception is caught
\* and the fetcher counts for zero results.
FetchFailed ==
    /\ Serving("Fetching")
    /\ call \in Fetchers
    /\ FetchNext(call, "failed", <<>>)

\* An HTTP client without a timeout.
NeverTimesOut == FALSE /\ UNCHANGED vars

FetchError == FetchFailed
FetchTimeout == FetchFailed

\* A normalizer that fills an empty list with estimated prices.
NormalizeResultsOrEstimate ==
    /\ Serving("Fetching")
    /\ call = "none"
    /\ fi > Len(FetcherOrder)
    /\ results' = IF raw = <<>>
                     THEN <<[source |-> "estimate", n |-> 1, live |-> FALSE]>>
                     ELSE Normalize(raw)
    /\ SetPhase("Normalizing")
    /\ UNCHANGED <<apiKeys, cur, req, intent, call, aiCalls, fi, outcome, raw, sources, resp>>
    /\ UNCHANGED <<wireVars, pageVars, locVars, featureVars>>

NormalizeResults ==
    /\ Serving("Fetching")
    /\ call = "none"
    /\ fi > Len(FetcherOrder)
    /\ results' = Normalize(raw)
    /\ SetPhase("Normalizing")
    /\ UNCHANGED <<apiKeys, cur, req, intent, call, aiCalls, fi, outcome, raw, sources, resp>>
    /\ UNCHANGED <<wireVars, pageVars, locVars, featureVars>>

CapResults ==
    /\ Serving("Normalizing")
    /\ results' = Truncate(results, req.max_results)
    /\ SetPhase("Capped")
    /\ UNCHANGED <<apiKeys, cur, req, intent, call, aiCalls, fi, outcome, raw, sources, resp>>
    /\ UNCHANGED <<wireVars, pageVars, locVars, featureVars>>

Summarize ==
    /\ Serving("Capped")
    /\ resp' = SearchResponse(req.query, results)
    /\ SetPhase("Summarized")
    /\ UNCHANGED <<apiKeys, cur, req, intent, call, aiCalls, fi, outcome, raw, sources, results>>
    /\ UNCHANGED <<wireVars, pageVars, locVars, featureVars>>

\* The handler's locals end with the call.
Return ==
    /\ intent' = NoIntent
    /\ call' = "none"
    /\ aiCalls' = 0
    /\ fi' = 1
    /\ outcome' = NoOutcome
    /\ raw' = <<>>
    /\ sources' = "none"
    /\ results' = <<>>

\* The response is returned to the client.
Respond ==
    /\ Serving("Summarized") \/ Serving("Unsearchable")
    /\ SetPhase("Done")
    /\ Reply(cur, req.origin, resp)
    /\ Return
    /\ UNCHANGED <<apiKeys, cur, req, resp, posted, net, pageVars, locVars, featureVars>>

\* An unexpected exception in the handler: HTTP 500, nothing of the result list.
\* (Between the intent and the is_searchable test there is no statement to raise one.)
InternalError ==
    /\ cur # 0
    /\ phase[cur] \in Active
    /\ IF phase[cur] = "IntentResolved" THEN is_searchable(intent) ELSE TRUE
    /\ call = "none"
    /\ resp' = ServerError
    /\ SetPhase("Failed")
    /\ Reply(cur, req.origin, ServerError)
    /\ Return
    /\ UNCHANGED <<apiKeys, cur, req, posted, net, pageVars, locVars, featureVars>>

(***************************************************************************)
(* Frontend: SearchPage and its hooks.                                     *)
(***************************************************************************)
UiMaxResults == 50
MaxHistory == 10

NoToast == [kind |-> "none", text |-> "", n |-> 0]
EnterQueryToast == [kind |-> "error", text |-> "Please enter a search query", n |-> 0]
FoundToast(n) == [kind |-> "success", text |-> "Found n results", n |-> n]
UnavailableToast == [kind |-> "warning", text |-> "Search unavailable for this query", n |-> 0]
FailedToast(text) == [kind |-> "error", text |-> text, n |-> 0]

\* EXAMPLE_QUERIES: fixed, non-blank texts.
ExampleQueries == {q \in Queries : Len(q) = MaxQueryLen /\ \A i \in 1..Len(q) : q[i] # " "}

\* const q = searchQuery || query
EffectiveQuery(searchQuery) ==
    IF searchQuery = Undefined \/ searchQuery = <<>> THEN query ELSE searchQuery

\* !q.trim()
Blank(q) == Trim(q) = <<>>

\* The query moves to the front and nothing is dropped.
addToHistoryUncapped(h, q) ==
    <<[query |-> q]>> \o SelectSeq(h, LAMBDA e : e.query # q)

\* useSearchHistory.addToHistory: the query moves to the front, at most 10 are kept.
addToHistory(h, q) ==
    LET filtered == SelectSeq(h, LAMBDA e : e.query # q)
        added == <<[query |-> q]>> \o filtered
    IN  SubSeq(added, 1, Min(Len(added), MaxHistory))

\* handleSearch, up to "await axios.post(...)".
handleSearch(searchQuery) ==
    LET q == EffectiveQuery(searchQuery)
        id == posted + 1
    IN  IF Blank(q)
          THEN /\ toast' = EnterQueryToast
               /\ UNCHANGED <<isLoading, searchResults, awaiting, submitted, shown, posted, net>>
          ELSE /\ posted < MaxRequests
               /\ isLoading' = TRUE
               /\ searchResults' = Null
               /\ posted' = id
               /\ net' = net \cup {[id |-> id, query |-> Trim(q), max_results |-> UiMaxResults]}
               /\ awaiting' = [awaiting EXCEPT ![id] = Trim(q)]
               /\ submitted' = id
               /\ shown' = 0
               /\ UNCHANGED toast

\* onChange of the search input (disabled while loading).
setQuery ==
    /\ ~isLoading
    /\ \E v \in Queries : query' = v
    /\ UNCHANGED <<isLoading, searchResults, history, toast, awaiting, submitted, shown>>
    /\ UNCHANGED <<backendVars, wireVars, locVars, featureVars>>

\* The search button, or Enter in the input (both disabled while loading).
SearchButton ==
    /\ ~isLoading
    /\ handleSearch(Undefined)
    /\ UNCHANGED <<query, history, replies, backendVars, locVars, featureVars>>

\* An example pill (disabled while loading).
handleExampleClick ==
    /\ ~isLoading
    /\ \E exampleQuery \in ExampleQueries :
          /\ query' = exampleQuery
          /\ handleSearch(exampleQuery)
    /\ UNCHANGED <<history, replies, backendVars, locVars, featureVars>>

\* The speech recognizer delivers a transcript.
handleVoiceResult ==
    /\ \E transcript \in Queries :
          /\ query' = transcript
          /\ handleSearch(transcript)
    /\ UNCHANGED <<history, replies, backendVars, locVars, featureVars>>

\* The posted request reaches the backend.
PageRequestArrives ==
    /\ \E r \in net :
          /\ search(r.id, r.query, r.max_results, "ui")
          /\ net' = net \ {r}
    /\ UNCHANGED <<posted, pageVars, locVars, featureVars>>

Settle(id) ==
    /\ isLoading' = FALSE
    /\ awaiting' = [awaiting EXCEPT ![id] = NotAwaiting]
    /\ replies' = [replies EXCEPT ![id] = NoResponse]

\* handleSearch resumes after the await with a 2xx response.
handleSearchResponse ==
    /\ \E id \in RequestIds :
          /\ awaiting[id] # NotAwaiting
          /\ replies[id].status = 200
          /\ searchResults' = replies[id]
          /\ shown' = id
          /\ history' = addToHistory(history, awaiting[id])
          /\ toast' = IF replies[id].success
                        THEN FoundToast(replies[id].results_count)
                        ELSE UnavailableToast
          /\ Settle(id)
    /\ UNCHANGED <<query, submitted, posted, net, backendVars, locVars, featureVars>>

\* handleSearch resumes in its catch block: the response has an error status.
handleSearchError ==
    /\ \E id \in RequestIds :
          /\ awaiting[id] # NotAwaiting
          /\ replies[id].status \in {400, 500}
          /\ toast' = FailedToast(replies[id].detail)
          /\ Settle(id)
    /\ UNCHANGED <<query, searchResults, history, submitted, shown, posted, net, backendVars,
                   locVars, featureVars>>

\* The request is lost on the way: axios rejects without a response.
NetworkError ==
    /\ \E r \in net :
          /\ net' = net \ {r}
          /\ toast' = FailedToast("Search failed. Please try again.")
          /\ Settle(r.id)
    /\ UNCHANGED <<query, searchResults, history, submitted, shown, posted, backendVars,
                   locVars, featureVars>>

(***************************************************************************)
(* Location/Currency Resolver: extract_location and get_currency_info.     *)
(* A query is read here as its lower-cased words.                          *)
(***************************************************************************)
Words == {"laptop", "tiles", "textiles", "ukulele", "delhivery", "in", "india", "usa",
          "united", "states", "new", "york", "delhi", "dubai", "london", "mumbai"}

\* The letters of a word, as runs of letters: a word that contains a keyword inside
\* itself is the keyword's run and the rest.
Pieces(w) ==
    CASE w = "textiles" -> <<"tex", "tiles">>
      [] w = "ukulele" -> <<"uk", "ulele">>
      [] w = "delhivery" -> <<"delhi", "very">>
      [] OTHER -> <<w>>

\* The text of a word sequence: the words' letters, one blank between words.
RECURSIVE Text(_)
Text(ws) ==
    IF ws = <<>> THEN <<>>
    ELSE IF Len(ws) = 1 THEN Pieces(ws[1])
    ELSE Pieces(ws[1]) \o <<" ">> \o Text(Tail(ws))

WordQueries == SeqsUpTo(Words, MaxWords)

COUNTRY_KEYWORDS == <<
    [kw |-> <<"india">>, country |-> "india"],
    [kw |-> <<"indian">>, country |-> "india"],
    [kw |-> <<"usa">>, country |-> "usa"],
    [kw |-> <<"united", "states">>, country |-> "usa"],
    [kw |-> <<"america">>, country |-> "usa"],
    [kw |-> <<"uk">>, country |-> "uk"],
    [kw |-> <<"united", "kingdom">>, country |-> "uk"],
    [kw |-> <<"uae">>, country |-> "uae"],
    [kw |-> <<"dubai">>, country |-> "uae"] >>

CITIES_DB == <<
    [kw |-> <<"mumbai">>, city |-> "Mumbai", state |-> "Maharashtra", country |-> "india"],
    [kw |-> <<"delhi">>, city |-> "Delhi", state |-> "Delhi NCR", country |-> "india"],
    [kw |-> <<"bangalore">>, city |-> "Bangalore", state |-> "Karnataka", country |-> "india"],
    [kw |-> <<"new", "york">>, city |-> "New York", state |-> "New York", country |-> "usa"],
    [kw |-> <<"london">>, city |-> "London", state |-> "England", country |-> "uk"],
    [kw |-> <<"dubai">>, city |-> "Dubai", state |-> "Dubai", country |-> "uae"],
    \* "... more cities": one of them, a multi-word city that ends in another city's name
    [kw |-> <<"new", "delhi">>, city |-> "New Delhi", state |-> "Delhi NCR", country |-> "india"] >>

\* Region -> currency, as the backend documents it.
CURRENCY_BY_COUNTRY ==
    [c \in {"india", "usa", "uk", "uae", "japan", "australia", "canada", "europe"} |->
        CASE c = "india" -> "INR"
          [] c = "usa" -> "USD"
          [] c = "uk" -> "GBP"
          [] c = "uae" -> "AED"
          [] c = "japan" -> "JPY"
          [] c = "australia" -> "AUD"
          [] c = "canada" -> "CAD"
          [] c = "europe" -> "EUR"]

CurrencyCodes == {CURRENCY_BY_COUNTRY[c] : c \in DOMAIN CURRENCY_BY_COUNTRY}

DefaultCountry == "global"
DefaultCurrency == "USD"

\* keyword in text: the keyword occurs anywhere in the text, inside a word too.
SubstringMatches(kw, q) ==
    LET t == Text(q)
        k == Text(kw)
    IN  \E i \in 1..(Len(t) - Len(k) + 1) : SubSeq(t, i, i + Len(k) - 1) = k

\* re.search(r"\b" + keyword + r"\b", text): the keyword occurs in the text with a
\* word boundary on both sides.
KeywordMatches(kw, q) ==
    LET t == Text(q)
        k == Text(kw)
    IN  \E i \in 1..(Len(t) - Len(k) + 1) :
           /\ SubSeq(t, i, i + Len(k) - 1) = k
           /\ IF i = 1 THEN TRUE ELSE t[i - 1] = " "
           /\ IF i + Len(k) - 1 = Len(t) THEN TRUE ELSE t[i + Len(k)] = " "

\* The first entry of the table, in table order, whose keyword matches; 0 if none does.
FirstMatchInTableOrder(table, q) ==
    LET hits == {i \in 1..Len(table) : KeywordMatches(table[i].kw, q)}
    IN  IF hits = {} THEN 0 ELSE CHOOSE i \in hits : \A j \in hits : i <= j

\* Index of the entry of the table whose keyword matches, longer literals tried first
\* and table order among equally long ones; 0 if none matches.
FirstMatch(table, q) ==
    LET hits == {i \in 1..Len(table) : KeywordMatches(table[i].kw, q)}
        Before(i, j) == \/ Len(Text(table[i].kw)) > Len(Text(table[j].kw))
                        \/ Len(Text(table[i].kw)) = Len(Text(table[j].kw)) /\ i <= j
    IN  IF hits = {} THEN 0 ELSE CHOOSE i \in hits : \A j \in hits : Before(i, j)

\* A currency lookup without the default.
get_currency_info_nodefault(country) ==
    IF country \in DOMAIN CURRENCY_BY_COUNTRY THEN CURRENCY_BY_COUNTRY[country] ELSE "null"

\* get_currency_info(country): the currency of the country, the global default otherwise.
get_currency_info(country) ==
    IF country \in DOMAIN CURRENCY_BY_COUNTRY
      THEN CURRENCY_BY_COUNTRY[country]
      ELSE DefaultCurrency

\* extract_location(query): country keywords first, then city names, then the default.
extract_location(q) ==
    LET k == FirstMatch(COUNTRY_KEYWORDS, q)
        c == FirstMatch(CITIES_DB, q)
    IN  [city |-> IF c # 0 THEN CITIES_DB[c].city ELSE "null",
         state |-> IF c # 0 THEN CITIES_DB[c].state ELSE "null",
         country |-> IF k # 0 THEN COUNTRY_KEYWORDS[k].country
                     ELSE IF c # 0 THEN CITIES_DB[c].country
                     ELSE DefaultCountry]

\* The LocationContext of a query.
LocationContext(q) ==
    LET l == extract_location(q)
    IN  [city |-> l.city, state |-> l.state, country |-> l.country,
         currency_code |-> get_currency_info(l.country)]

Unresolved == [city |-> "null", state |-> "null", country |-> "null", currency_code |-> "null"]

\* The product keywords of a query: its words, without the words of the city and
\* country names found in it.
extract_product_keywords(q) ==
    LET places == {kw \in {COUNTRY_KEYWORDS[i].kw : i \in 1..Len(COUNTRY_KEYWORDS)}
                          \cup {CITIES_DB[i].kw : i \in 1..Len(CITIES_DB)} :
                      KeywordMatches(kw, q)}
        placeWords == UNION {{kw[i] : i \in 1..Len(kw)} : kw \in places}
    IN  {q[i] : i \in 1..Len(q)} \ placeWords

\* The texts (name and category) of the stores the map data holds.
StoreTexts == {<<"textiles">>, <<"tiles">>, <<"laptop">>, <<"delhi", "textiles">>}

\* A store is relevant when a product keyword of the query occurs in its text.
is_relevant(store, q) ==
    \E k \in extract_product_keywords(q) : KeywordMatches(<<k>>, store)

NoRelevance == [s \in StoreTexts |-> FALSE]

\* The backend resolves the location of the query and marks the relevant stores.
ResolveLocation ==
    /\ location = Unresolved
    /\ location' = LocationContext(locQuery)
    /\ relevant' = [s \in StoreTexts |-> is_relevant(s, locQuery)]
    /\ UNCHANGED <<locQuery, backendVars, wireVars, pageVars, featureVars>>

(***************************************************************************)
(* Local-store fetcher: OpenStreetMap Overpass API with fallback servers.  *)
(***************************************************************************)
MaxStores == 2          \* stores one map-data server returns for one city

\* The Overpass API servers, in the order the fetcher tries them.
OVERPASS_SERVERS == <<"overpass-api.de", "kumi.systems", "mail.ru">>

\* The cities of the city table: the fetcher asks by the city's coordinates.
OsmCities == {CITIES_DB[i].city : i \in 1..Len(CITIES_DB)}

NoCity == "null"
NoStores == [kind |-> "pending", server |-> "none", stores |-> <<>>]

\* The stores a server returned: n of them, tagged with the server and the city.
Stores(server, city, n) == [k \in 1..n |-> [server |-> server, city |-> city, n |-> k]]

StoresIdle ==
    /\ osmCity = NoCity
    /\ osmNext = 1
    /\ osmCall = 0
    /\ osmLog = <<>>
    /\ osmResult = NoStores

\* A fetcher that asks every server, whatever the earlier ones answered.
search_local_stores_ask_all ==
    /\ osmCity # NoCity
    /\ osmCall = 0
    /\ osmNext <= Len(OVERPASS_SERVERS)
    /\ osmCall' = osmNext
    /\ UNCHANGED <<osmCity, osmNext, osmLog, osmResult>>

\* The fetcher posts the query to the next server, as long as none has answered.
search_local_stores ==
    /\ osmCity # NoCity
    /\ osmResult.kind = "pending"
    /\ osmCall = 0
    /\ osmNext <= Len(OVERPASS_SERVERS)
    /\ osmCall' = osmNext
    /\ UNCHANGED <<osmCity, osmNext, osmLog, osmResult>>

OsmCall ==
    /\ search_local_stores
    /\ UNCHANGED besidesStores

\* The server answers: its stores are the fetcher's result.
OsmReply ==
    /\ osmCall # 0
    /\ \E n \in 0..MaxStores :
          osmResult' = [kind |-> "data", server |-> OVERPASS_SERVERS[osmCall],
                        stores |-> Stores(OVERPASS_SERVERS[osmCall], osmCity, n)]
    /\ osmLog' = Append(osmLog, [server |-> OVERPASS_SERVERS[osmCall], outcome |-> "ok"])
    /\ osmNext' = osmNext + 1
    /\ osmCall' = 0
    /\ UNCHANGED <<osmCity, besidesStores>>

\* The server fails (error status, timeout): on to the next one.
OsmFailed(how) ==
    /\ osmCall # 0
    /\ osmLog' = Append(osmLog, [server |-> OVERPASS_SERVERS[osmCall], outcome |-> how])
    /\ osmNext' = osmNext + 1
    /\ osmCall' = 0
    /\ UNCHANGED <<osmCity, osmResult, besidesStores>>

OsmError == OsmFailed("error")
OsmTimeout == OsmFailed("timeout")

\* Every server has failed: the fetcher returns no stores.
OsmGiveUp ==
    /\ osmCity # NoCity
    /\ osmResult.kind = "pending"
    /\ osmCall = 0
    /\ osmNext > Len(OVERPASS_SERVERS)
    /\ osmResult' = [kind |-> "none", server |-> "none", stores |-> <<>>]
    /\ UNCHANGED <<osmCity, osmNext, osmCall, osmLog>>
    /\ UNCHANGED besidesStores

(***************************************************************************)
(* Source Discovery: discover_marketplaces_with_ai and its in-memory cache, *)
(* with several requests in flight.                                        *)
(***************************************************************************)
MaxDiscoverers == 3     \* requests that run source discovery concurrently
SourcesPerList == 2     \* marketplaces in one discovered list

Discoverers == 1..MaxDiscoverers

\* (category, region)
CacheKeys == {<<"electronics", "india">>, <<"electronics", "usa">>}

NoKey == <<>>
NoList == <<>>

\* The list one discovery call produced for a key: its marketplaces, in order.
DiscoveredList(c, key) == [k \in 1..SourcesPerList |-> [call |-> c, key |-> key, k |-> k]]

\* The static per-category table, used when the discovery call fails.
StaticList(key) == [k \in 1..SourcesPerList |-> [call |-> 0, key |-> <<key[1]>>, k |-> k]]

\* A write that extends the list already cached for the key.
CachePutExtend(c, key, list) ==
    {e \in c : e.key # key}
        \cup {[key |-> key, list |-> e.list \o list] : e \in {x \in c : x.key = key}}
        \cup (IF \E e \in c : e.key = key THEN {} ELSE {[key |-> key, list |-> list]})

\* cache[key] = list
CachePut(c, key, list) == {e \in c : e.key # key} \cup {[key |-> key, list |-> list]}

\* key in cache
Cached(c, key) == \E e \in c : e.key = key

\* cache[key]
CacheGet(c, key) == (CHOOSE e \in c : e.key = key).list

CacheIdle ==
    /\ cache = {}
    /\ rcKey = [r \in Discoverers |-> NoKey]
    /\ rcPc = [r \in Discoverers |-> "none"]
    /\ rcCall = [r \in Discoverers |-> 0]
    /\ rcList = [r \in Discoverers |-> NoList]
    /\ discoveries = 0

\* A request reaches source discovery: a cached list is returned at once, otherwise the
\* external discovery call is issued.
discover_marketplaces_with_ai(r, key) ==
    /\ rcPc[r] = "none"
    /\ rcKey' = [rcKey EXCEPT ![r] = key]
    /\ IF Cached(cache, key)
         THEN /\ rcList' = [rcList EXCEPT ![r] = CacheGet(cache, key)]
              /\ rcPc' = [rcPc EXCEPT ![r] = "done"]
              /\ UNCHANGED <<rcCall, discoveries>>
         ELSE /\ discoveries' = discoveries + 1
              /\ rcCall' = [rcCall EXCEPT ![r] = discoveries + 1]
              /\ rcPc' = [rcPc EXCEPT ![r] = "calling"]
              /\ UNCHANGED rcList
    /\ UNCHANGED <<cache, besidesCache>>

CacheLookup == \E r \in Discoverers, key \in CacheKeys : discover_marketplaces_with_ai(r, key)

\* The discovery call of a request answers with its list.
DiscoveryAnswers ==
    \E r \in Discoverers :
        /\ rcPc[r] = "calling"
        /\ rcList' = [rcList EXCEPT ![r] = DiscoveredList(rcCall[r], rcKey[r])]
        /\ rcPc' = [rcPc EXCEPT ![r] = "answered"]
        /\ UNCHANGED <<cache, rcKey, rcCall, discoveries, besidesCache>>

\* The discovery call of a request fails: the static table, nothing cached.
DiscoveryFails ==
    \E r \in Discoverers :
        /\ rcPc[r] = "calling"
        /\ rcList' = [rcList EXCEPT ![r] = StaticList(rcKey[r])]
        /\ rcPc' = [rcPc EXCEPT ![r] = "done"]
        /\ UNCHANGED <<cache, rcKey, rcCall, discoveries, besidesCache>>

\* The request stores its list under its key and returns it.
CacheWrite ==
    \E r \in Discoverers :
        /\ rcPc[r] = "answered"
        /\ cache' = CachePut(cache, rcKey[r], rcList[r])
        /\ rcPc' = [rcPc EXCEPT ![r] = "done"]
        /\ UNCHANGED <<rcKey, rcCall, rcList, discoveries, besidesCache>>

(***************************************************************************)
(* Vendor details: generate_vendor_details and the views that present a    *)
(* vendor's contact.                                                       *)
(***************************************************************************)
sourceTypes == {"Global Suppliers", "Local Markets", "Online Marketplaces"}

Marketplaces == {"Amazon.in", "Flipkart", "IndiaMART"}

\* The cities of India in the city table.
VendorCities == {CITIES_DB[i].city : i \in {j \in DOMAIN CITIES_DB : CITIES_DB[j].country = "india"}}

\* "not available" placeholder of a missing field
NotAvailable == "not available"

NoVendor ==
    [vendor_name |-> "none", vendor_email |-> "none", vendor_phone |-> "none",
     vendor_city |-> "none", vendor_country |-> "none", vendor_type |-> "none"]

\* VendorInfoModal, a card of VendorsSection, a row of the CSV export
VendorViews == {"modal", "card", "csv"}

NotShown == [email |-> "none", phone |-> "none"]

\* "Generates realistic vendor info. Uses real city names and proper address formats."
generate_vendor_details(marketplace_name, source_type, city) ==
    [vendor_name |-> "Global Traders",
     vendor_email |-> "globaltraders@sales.in",
     vendor_phone |-> "+91 98765 43210",
     vendor_city |-> city,
     vendor_country |-> "INDIA",
     vendor_type |-> source_type]

VendorsIdle ==
    /\ vnMarket = "none"
    /\ vnType = "none"
    /\ vnCity = "none"
    /\ vendor = NoVendor
    /\ vnShown = [v \in VendorViews |-> NotShown]

\* A result of the search gets its vendor block.
GenerateVendor ==
    /\ vendor = NoVendor
    /\ vendor' = generate_vendor_details(vnMarket, vnType, vnCity)
    /\ UNCHANGED <<vnMarket, vnType, vnCity, vnShown, besidesVendors>>

\* A view presents the vendor's e-mail address and phone number as they are in the block.
ShowVendor(view) ==
    /\ vendor # NoVendor
    /\ vnShown[view] = NotShown
    /\ vnShown' = [vnShown EXCEPT ![view] = [email |-> vendor.vendor_email, phone |-> vendor.vendor_phone]]
    /\ UNCHANGED <<vnMarket, vnType, vnCity, vendor, besidesVendors>>

VendorInfoModal == ShowVendor("modal")

VendorsSection == ShowVendor("card")

exportToCSV == ShowVendor("csv")

(***************************************************************************)
(* useCompare.                                                             *)
(***************************************************************************)
MaxCompare == 4          \* "Maximum 4 products can be compared"
MaxCallsPerRender == 2   \* handler calls between two renders of the component

CompareProducts ==
    {[name |-> n, source |-> src] : n \in {"iPhone 15", "Galaxy S24", "Pixel 8"}, src \in {"Amazon.in", "Flipkart"}}

\* compareList.some(p => p.name === product.name && p.source === product.source)
InList(list, product) ==
    \E i \in 1..Len(list) : list[i].name = product.name /\ list[i].source = product.source

\* prev.filter(p => !(p.name === product.name && p.source === product.source))
Without(list, product) ==
    SelectSeq(list, LAMBDA p : ~(p.name = product.name /\ p.source = product.source))

CompareIdle ==
    /\ compareList = <<>>
    /\ compareSeen = <<>>
    /\ compareCalls = 0
    /\ compareToast = "none"

\* The two checks read the compareList of the render that created the handler; the
\* append is a functional update of the state as it is when the update runs.
addToCompare(product) ==
    /\ compareCalls < MaxCallsPerRender
    /\ compareCalls' = compareCalls + 1
    /\ IF Len(compareSeen) >= MaxCompare
         THEN /\ compareToast' = "Maximum 4 products can be compared"
              /\ UNCHANGED compareList
         ELSE IF InList(compareSeen, product)
                THEN /\ compareToast' = "Product already in comparison"
                     /\ UNCHANGED compareList
                ELSE /\ compareList' = Append(compareList, product)
                     /\ compareToast' = "Added to comparison"
    /\ UNCHANGED <<compareSeen, besidesCompare>>

AddToCompare == \E product \in CompareProducts : addToCompare(product)

removeFromCompare(product) ==
    /\ compareCalls < MaxCallsPerRender
    /\ compareCalls' = compareCalls + 1
    /\ compareList' = Without(compareList, product)
    /\ UNCHANGED <<compareSeen, compareToast, besidesCompare>>

RemoveFromCompare == \E product \in CompareProducts : removeFromCompare(product)

clearCompare ==
    /\ compareCalls < MaxCallsPerRender
    /\ compareCalls' = compareCalls + 1
    /\ compareList' = <<>>
    /\ UNCHANGED <<compareSeen, compareToast, besidesCompare>>

\* The component renders again: new handlers, which read the current state.
CompareRender ==
    /\ compareCalls > 0
    /\ compareSeen' = compareList
    /\ compareCalls' = 0
    /\ UNCHANGED <<compareList, compareToast, besidesCompare>>

(***************************************************************************)
(* Currency conversion: CURRENCIES and convertPrice.  A JavaScript number   *)
(* is a binary floating-point number: a mantissa of a fixed number of bits  *)
(* and an exponent, every operation rounded to the nearest such number      *)
(* (ties to even).  The model keeps the format and the rounding and         *)
(* shortens the mantissa.                                                  *)
(***************************************************************************)
MantissaBits == 10   \* bits of the mantissa of a number
MaxPrice == 40       \* largest price converted

RECURSIVE Pow2(_)
Pow2(k) == IF k = 0 THEN 1 ELSE 2 * Pow2(k - 1)

\* The number nearest to (n / d) * 2^e, for n > 0 and d > 0: [m, e] stands for m * 2^e
\* with 2^(MantissaBits-1) <= m < 2^MantissaBits.
RECURSIVE RoundRatio(_, _, _)
RoundRatio(n, d, e) ==
    IF n >= d * Pow2(MantissaBits)
      THEN RoundRatio(n, 2 * d, e + 1)
      ELSE IF n < d * Pow2(MantissaBits - 1)
             THEN RoundRatio(2 * n, d, e - 1)
             ELSE LET q == n \div d
                      r == n % d
                      up == 2 * r > d \/ (2 * r = d /\ q % 2 = 1)
                      m == IF up THEN q + 1 ELSE q
                  IN  IF m = Pow2(MantissaBits)
                        THEN [m |-> Pow2(MantissaBits - 1), e |-> e + 1]
                        ELSE [m |-> m, e |-> e]

\* The number a decimal literal n/d denotes.
Literal(n, d) == RoundRatio(n, d, 0)

\* a * b
Times(a, b) == RoundRatio(a.m * b.m, 1, a.e + b.e)

\* a / b
DividedBy(a, b) == RoundRatio(a.m, b.m, a.e - b.e)

SwitcherCodes == {"INR", "USD", "GBP", "EUR", "AED"}

CURRENCIES ==
    [c \in SwitcherCodes |->
        CASE c = "INR" -> [symbol |-> "Rs", rate |-> Literal(1, 1)]
          [] c = "USD" -> [symbol |-> "$", rate |-> Literal(12, 1000)]
          [] c = "GBP" -> [symbol |-> "GBP", rate |-> Literal(95, 10000)]
          [] c = "EUR" -> [symbol |-> "EUR", rate |-> Literal(11, 1000)]
          [] c = "AED" -> [symbol |-> "AED", rate |-> Literal(44, 1000)]]

\* A conversion that applies the target rate to the price as it is.
convertPriceDirect(price, originalCurrency, targetCurrency) ==
    Times(price, CURRENCIES[targetCurrency].rate)

convertPrice(price, originalCurrency, targetCurrency) ==
    LET inINR == IF originalCurrency = "INR"
                   THEN price
                   ELSE DividedBy(price, CURRENCIES[originalCurrency].rate)
    IN  Times(inINR, CURRENCIES[targetCurrency].rate)

NoNumber == [m |-> 0, e |-> 0]

CurrencyIdle ==
    /\ cvPrice = NoNumber
    /\ cvFrom = "none"
    /\ cvTo = "none"
    /\ cvOut = NoNumber
    /\ cvBack = NoNumber

\* The price of a product is shown in the selected currency.
ConvertPrice ==
    /\ cvOut = NoNumber
    /\ cvOut' = convertPrice(cvPrice, cvFrom, cvTo)
    /\ UNCHANGED <<cvPrice, cvFrom, cvTo, cvBack, besidesCurrency>>

\* The converted price, taken as a price in the selected currency, is shown in the
\* original currency.
ConvertBack ==
    /\ cvOut # NoNumber
    /\ cvBack = NoNumber
    /\ cvBack' = convertPrice(cvOut, cvTo, cvFrom)
    /\ UNCHANGED <<cvPrice, cvFrom, cvTo, cvOut, besidesCurrency>>

(***************************************************************************)
(* useDarkMode, useFavorites, useSearchHistory and localStorage.  A stored  *)
(* text is the sequence of the tokens of its JSON; the time stamps of the   *)
(* entries are left out.                                                   *)
(***************************************************************************)
MaxHookCalls == 3    \* calls of the hooks' handlers in one run

StorageKeys == {"darkMode", "favorites", "searchHistory"}

\* localStorage.getItem of a key that was never set: null
NoItem == <<>>

\* Ten queries searched earlier, most recent first.
SavedQueries ==
    <<"iPhone 15 price in India", "Dell Laptop under 50000", "Nike shoes",
      "Samsung TV 55 inch", "Sony headphones", "MacBook Pro in USA",
      "laptop", "textiles", "tiles in delhi", "ukulele">>

SavedHistory == [i \in 1..Len(SavedQueries) |-> [query |-> SavedQueries[i]]]

\* How much of it an earlier visit left behind: nothing, one entry, one short of the cap,
\* the cap.
SavedLengths == {0, 1, Len(SavedHistory) - 1, Len(SavedHistory)}

\* The queries the user searches: the most recent, one in the middle, the oldest, two new.
SearchedQueries ==
    {SavedQueries[1], SavedQueries[5], SavedQueries[Len(SavedQueries)], "iPhone 16", "Pixel 8"}

FavoriteProducts ==
    {[name |-> "iPhone 15", source |-> "Amazon.in"], [name |-> "iPhone 15", source |-> "Flipkart"]}

\* The favorites an earlier visit stored.
SavedFavorites ==
    <<[name |-> "Galaxy S24", source |-> "Amazon.in"], [name |-> "iPhone 15", source |-> "Amazon.in"]>>

InfoToast(text) == [kind |-> "info", text |-> text, n |-> 0]
SuccessToast(text) == [kind |-> "success", text |-> text, n |-> 0]

\* JSON.stringify of a boolean
StringifyBool(b) == IF b THEN <<"true">> ELSE <<"false">>

\* JSON.parse of the text of a boolean
ParseBool(text) == text = <<"true">>

RECURSIVE Flatten(_)
Flatten(texts) == IF texts = <<>> THEN <<>> ELSE Head(texts) \o Flatten(Tail(texts))

\* JSON.stringify of an array of objects with the given keys
StringifyList(list, keys) ==
    LET object(o) == <<"{">> \o Flatten([k \in 1..Len(keys) |-> <<keys[k], o[keys[k]]>>]) \o <<"}">>
    IN  <<"[">> \o Flatten([i \in 1..Len(list) |-> object(list[i])]) \o <<"]">>

\* JSON.parse of the text of an array of objects: each object is a "{", its keys each
\* followed by its value, and a "}".
ParseList(text) ==
    LET opens == {i \in 1..Len(text) : text[i] = "{"}
        closes == {i \in 1..Len(text) : text[i] = "}"}
        start(n) == CHOOSE i \in opens : Cardinality({j \in opens : j < i}) = n - 1
        end(n) == CHOOSE i \in closes : Cardinality({j \in closes : j < i}) = n - 1
        fields(n) == {k \in start(n) + 1 .. end(n) - 1 : (k - start(n)) % 2 = 1}
        object(n) == [key \in {text[k] : k \in fields(n)} |->
                        text[(CHOOSE k \in fields(n) : text[k] = key) + 1]]
    IN  [n \in 1..Cardinality(opens) |-> object(n)]

HistoryKeys == <<"query">>
FavoriteKeys == <<"name", "source">>

\* An initializer that ignores what is stored.
LoadDefault(saved, parsed, default) == default

\* saved ? JSON.parse(saved) : default
Load(saved, parsed, default) == IF saved # NoItem THEN parsed ELSE default

\* What the three hooks have in memory, as the text their effects store.
Stored(key) ==
    CASE key = "darkMode" -> StringifyBool(isDark)
      [] key = "favorites" -> StringifyList(favorites, FavoriteKeys)
      [] key = "searchHistory" -> StringifyList(history, HistoryKeys)

HooksIdle ==
    /\ isDark = FALSE
    /\ darkClass = FALSE
    /\ favorites = <<>>
    /\ localStorage = [k \in StorageKeys |-> NoItem]
    /\ effects = {}
    /\ hookCalls = 0

\* The page is loaded: the initializers of the three useState calls read localStorage,
\* and the effects of the first render are due.
Mount ==
    /\ isDark' = Load(localStorage["darkMode"], ParseBool(localStorage["darkMode"]), FALSE)
    /\ favorites' = Load(localStorage["favorites"], ParseList(localStorage["favorites"]), <<>>)
    /\ history' = Load(localStorage["searchHistory"], ParseList(localStorage["searchHistory"]), <<>>)
    /\ effects' = StorageKeys
    /\ toast' = NoToast

\* The page is loaded again.
Reload ==
    /\ Mount
    /\ UNCHANGED <<darkClass, localStorage, hookCalls, besidesHooks>>

\* The useEffect of a hook runs.
RunEffect ==
    \E key \in effects :
        /\ localStorage' = [localStorage EXCEPT ![key] = Stored(key)]
        /\ darkClass' = IF key = "darkMode" THEN isDark ELSE darkClass
        /\ effects' = effects \ {key}
        /\ UNCHANGED <<isDark, favorites, history, toast, hookCalls, besidesHooks>>

HookCalled ==
    /\ hookCalls < MaxHookCalls
    /\ hookCalls' = hookCalls + 1
    /\ UNCHANGED <<darkClass, localStorage, besidesHooks>>

\* DarkModeToggle: setIsDark(!isDark)
ToggleDark ==
    /\ HookCalled
    /\ isDark' = ~isDark
    /\ effects' = effects \cup {"darkMode"}
    /\ UNCHANGED <<favorites, history, toast>>

\* The product is appended whether or not it is in the list.
addFavoriteAlways(product) ==
    /\ HookCalled
    /\ favorites' = Append(favorites, product)
    /\ effects' = effects \cup {"favorites"}
    /\ toast' = SuccessToast("Added to favorites!")
    /\ UNCHANGED <<isDark, history>>

\* useFavorites.addFavorite
addFavorite(product) ==
    /\ HookCalled
    /\ IF InList(favorites, product)
         THEN UNCHANGED <<favorites, effects>>
         ELSE /\ favorites' = Append(favorites, product)
              /\ effects' = effects \cup {"favorites"}
    /\ toast' = SuccessToast("Added to favorites!")
    /\ UNCHANGED <<isDark, history>>

AddFavorite == \E product \in FavoriteProducts : addFavorite(product)

removeFavorite(product) ==
    /\ HookCalled
    /\ favorites' = Without(favorites, product)
    /\ effects' = effects \cup {"favorites"}
    /\ toast' = InfoToast("Removed from favorites")
    /\ UNCHANGED <<isDark, history>>

RemoveFavorite == \E product \in FavoriteProducts : removeFavorite(product)

AddToHistory ==
    \E q \in SearchedQueries :
        /\ HookCalled
        /\ history' = addToHistory(history, q)
        /\ effects' = effects \cup {"searchHistory"}
        /\ UNCHANGED <<isDark, favorites, toast>>

clearHistory ==
    /\ HookCalled
    /\ history' = <<>>
    /\ effects' = effects \cup {"searchHistory"}
    /\ toast' = InfoToast("Search history cleared")
    /\ UNCHANGED <<isDark, favorites>>

(***************************************************************************)
(* SearchPage: filters and filteredResults.  Ratings are in tenths.        *)
(***************************************************************************)
\* A field the result does not have.
Absent == "undefined"

\* No value selected for an advanced filter: null
NoSelection == "null"

Availabilities == {"In Stock", "Limited Stock", "Pre-Order"}

NoSpecifications == [has |-> FALSE, RAM |-> Absent]
Specifications(ram) == [has |-> TRUE, RAM |-> ram]

\* vendor_type stands for vendor.vendor_type, the source type of the result.
Product(name, price, rating, availability, vendor_type, brand, model, color, size, material, specs) ==
    [name |-> name, price |-> price, rating |-> rating, availability |-> availability,
     vendor_type |-> vendor_type,
     brand |-> brand, model |-> model, color |-> color, size |-> size,
     material |-> material, specifications |-> specs]

\* The results of one search response, in its order.
Catalog ==
    << Product("iPhone 15 128GB", 200, 45, "In Stock", "Online Marketplaces",
               "Apple", "15", "Black", "128GB", "Glass", Specifications("6GB")),
       Product("iPhone 15 128GB 8GB", 300, 45, "In Stock", "Global Suppliers",
               "Apple", "15", "Black", "128GB", "Glass", Specifications("8GB")),
       Product("iPhone 15 Blue", 100, 40, "Limited Stock", "Local Markets",
               "Apple", "15", "Blue", "256GB", "Glass", NoSpecifications),
       Product("Galaxy S24", 200, 35, "Pre-Order", "Online Marketplaces",
               "Samsung", "S24", "Black", "128GB", "Metal", Specifications("8GB")),
       Product("Phone case", 100, 50, "In Stock", "Online Marketplaces",
               Absent, Absent, Absent, Absent, Absent, [has |-> TRUE, RAM |-> Absent]) >>

\* What a response may hold: nothing, the catalog, its first three results.
ShownLists == {<<>>, Catalog, SubSeq(Catalog, 1, 3)}

\* The results of a response with one price at 0.85 of the average price.
Deals ==
    << [Catalog[3] EXCEPT !.price = 30],
       [Catalog[1] EXCEPT !.price = 170],
       [Catalog[4] EXCEPT !.price = 170],
       [Catalog[2] EXCEPT !.price = 430] >>

PriceRanges == {<<0, 1000000>>, <<100, 200>>, <<200, 300>>}
RatingFloors == {0, 40, 45}
AvailabilitySets == {Availabilities, {"In Stock"}, {}}
SourceTypeSets == {sourceTypes, {"Global Suppliers", "Local Markets"}, {}}
SpecSelections == {{}, {<<"RAM", "8GB">>}}
SortOrders == {"relevance", "price-low", "price-high", "rating", "name"}

\* The names of the catalog in the order of localeCompare.
NamesAscending ==
    <<"Galaxy S24", "iPhone 15 128GB", "iPhone 15 128GB 8GB", "iPhone 15 Blue", "Phone case">>

NameRank(name) == CHOOSE i \in 1..Len(NamesAscending) : NamesAscending[i] = name

DefaultFilters ==
    [priceRange |-> <<0, 1000000>>,
     minRating |-> 0,
     availability |-> Availabilities,
     sourceTypes |-> sourceTypes,
     selectedBrand |-> NoSelection,
     selectedModel |-> NoSelection,
     selectedColor |-> NoSelection,
     selectedSize |-> NoSelection,
     selectedMaterial |-> NoSelection,
     selectedSpecs |-> {}]

\* price > priceRange[0] && price < priceRange[1]
meetsPriceExclusive(r, f) == r.price > f.priceRange[1] /\ r.price < f.priceRange[2]

\* price >= filters.priceRange[0] && price <= filters.priceRange[1]
meetsPrice(r, f) == r.price >= f.priceRange[1] /\ r.price <= f.priceRange[2]

meetsRating(r, f) == r.rating >= f.minRating

meetsAvailability(r, f) == r.availability \in f.availability

\* !filters.selectedX || r.x === filters.selectedX
meetsSelected(value, selected) == selected = NoSelection \/ value = selected

\* Every selected specification whose value the result's specifications do not have fails
\* the result; a result without specifications passes.
meetsSpecs(r, f) ==
    \A sel \in f.selectedSpecs :
        ~(r.specifications.has /\ r.specifications[sel[1]] # sel[2])

Passes(r, f) ==
    /\ meetsPrice(r, f)
    /\ meetsRating(r, f)
    /\ meetsAvailability(r, f)
    /\ meetsSelected(r.brand, f.selectedBrand)
    /\ meetsSelected(r.model, f.selectedModel)
    /\ meetsSelected(r.color, f.selectedColor)
    /\ meetsSelected(r.size, f.selectedSize)
    /\ meetsSelected(r.material, f.selectedMaterial)
    /\ meetsSpecs(r, f)

\* A comparator that puts the lowest rating first.
CompareRatingAscending(a, b, by) ==
    CASE by = "price-low" -> a.price - b.price
      [] by = "price-high" -> b.price - a.price
      [] by = "rating" -> a.rating - b.rating
      [] by = "name" -> NameRank(a.name) - NameRank(b.name)
      [] OTHER -> 0

\* The comparator of .sort
Compare(a, b, by) ==
    CASE by = "price-low" -> a.price - b.price
      [] by = "price-high" -> b.price - a.price
      [] by = "rating" -> b.rating - a.rating
      [] by = "name" -> NameRank(a.name) - NameRank(b.name)
      [] OTHER -> 0

\* Array.prototype.sort: stable
RECURSIVE InsertSorted(_, _, _)
InsertSorted(x, sorted, by) ==
    IF sorted = <<>>
      THEN <<x>>
      ELSE IF Compare(x, sorted[Len(sorted)], by) < 0
             THEN Append(InsertSorted(x, SubSeq(sorted, 1, Len(sorted) - 1), by), sorted[Len(sorted)])
             ELSE Append(sorted, x)

RECURSIVE Sorted(_, _)
Sorted(list, by) ==
    IF list = <<>>
      THEN <<>>
      ELSE InsertSorted(list[Len(list)], Sorted(SubSeq(list, 1, Len(list) - 1), by), by)

\* searchResults?.results?.filter(...).sort(...) || []
FilterAndSort(list, f, by) == Sorted(SelectSeq(list, LAMBDA r : Passes(r, f)), by)

FiltersIdle ==
    /\ shownResults = <<>>
    /\ filters = DefaultFilters
    /\ sortBy = "relevance"
    /\ filteredResults = <<>>

\* onFiltersChange({ ...filters, field: value }), and the render that follows.
setFilters(f) ==
    /\ f # filters
    /\ filters' = f
    /\ filteredResults' = FilterAndSort(shownResults, f, sortBy)
    /\ UNCHANGED <<shownResults, sortBy, besidesFilters>>

SetPriceRange == \E v \in PriceRanges : setFilters([filters EXCEPT !.priceRange = v])

SetMinRating == \E v \in RatingFloors : setFilters([filters EXCEPT !.minRating = v])

SetAvailability == \E v \in AvailabilitySets : setFilters([filters EXCEPT !.availability = v])

\* The Source Type checkboxes of FilterPanel.
SetSourceTypes == \E v \in SourceTypeSets : setFilters([filters EXCEPT !.sourceTypes = v])

SetAdvanced ==
    \/ \E v \in {NoSelection, "Apple"} : setFilters([filters EXCEPT !.selectedBrand = v])
    \/ \E v \in {NoSelection, "15"} : setFilters([filters EXCEPT !.selectedModel = v])
    \/ \E v \in {NoSelection, "Black"} : setFilters([filters EXCEPT !.selectedColor = v])
    \/ \E v \in {NoSelection, "128GB"} : setFilters([filters EXCEPT !.selectedSize = v])
    \/ \E v \in {NoSelection, "Glass"} : setFilters([filters EXCEPT !.selectedMaterial = v])

SetSpecs == \E v \in SpecSelections : setFilters([filters EXCEPT !.selectedSpecs = v])

setSortBy ==
    \E by \in SortOrders :
        /\ by # sortBy
        /\ sortBy' = by
        /\ filteredResults' = FilterAndSort(shownResults, filters, by)
        /\ UNCHANGED <<shownResults, filters, besidesFilters>>

(***************************************************************************)
(* SearchPage: the prices of the displayed results in the selected         *)
(* currency.  All results of a response carry the currency of its region.  *)
(***************************************************************************)
DisplayIdle ==
    /\ shownCurrency = "INR"
    /\ selectedCurrency = "INR"

\* Reading .rate of CURRENCIES[code] when the table has no such code throws.
TypeError == [m |-> -1, e |-> 0]

\* ProductCard, PriceSummary: convertPrice with the table lookup CURRENCIES[originalCode],
\* which is made only for a code other than "INR".
convertPriceOf(price, originalCode, targetCurrency) ==
    IF originalCode # "INR" /\ originalCode \notin DOMAIN CURRENCIES
      THEN TypeError
      ELSE convertPrice(price, originalCode, targetCurrency)

\* ProductCard: convertPrice(product.price) of each displayed result, in their order.
DisplayedPrices ==
    [i \in 1..Len(filteredResults) |->
        convertPriceOf(Literal(filteredResults[i].price, 1), shownCurrency, selectedCurrency)]

\* prices.reduce((a, b) => a + b, 0)
RECURSIVE SumOfPrices(_)
SumOfPrices(list) == IF list = <<>> THEN 0 ELSE Head(list).price + SumOfPrices(Tail(list))

\* product.price === Math.min(...prices)
isLowestPrice(product, allProducts) ==
    \A i \in 1..Len(allProducts) : product.price <= allProducts[i].price

\* product.rating >= 4.0 && product.price <= avgPrice * 0.85, ratings in tenths
isBestDeal(product, allProducts) ==
    /\ product.rating >= 40
    /\ product.price * 100 * Len(allProducts) <= 85 * SumOfPrices(allProducts)

\* Both badges are rendered when both conditions hold.
BestDealBadgeBoth(product, allProducts) ==
    {b \in {"Lowest Price"} : isLowestPrice(product, allProducts)}
        \cup {b \in {"Best Deal"} : isBestDeal(product, allProducts)}

\* BestDealBadge: the badges the component renders for a product.
BestDealBadge(product, allProducts) ==
    IF isLowestPrice(product, allProducts) THEN {"Lowest Price"}
    ELSE IF isBestDeal(product, allProducts) THEN {"Best Deal"}
    ELSE {}

\* ProductCard: the badges of the displayed results, allProducts={filteredResults}.
Badges == [i \in 1..Len(filteredResults) |-> BestDealBadge(filteredResults[i], filteredResults)]

\* CurrencySwitcher: setSelectedCurrency
setSelectedCurrency ==
    \E c \in SwitcherCodes :
        /\ c # selectedCurrency
        /\ selectedCurrency' = c
        /\ UNCHANGED <<shownCurrency, besidesDisplay>>

(***************************************************************************)
(* PriceDistributionChart: six price buckets between the lowest and the    *)
(* highest price, in the arithmetic of numbers.                            *)
(***************************************************************************)
MaxChartResults == 3   \* results given to the price distribution chart

Zero == [m |-> 0, e |-> 0]

\* The number an integer denotes.
Number(i) == IF i = 0 THEN Zero ELSE Literal(i, 1)

\* a < b, for numbers that are not negative
LessThan(a, b) ==
    IF b.m = 0 THEN FALSE
    ELSE IF a.m = 0 THEN TRUE
    ELSE a.e < b.e \/ (a.e = b.e /\ a.m < b.m)

\* a <= b
AtMost(a, b) == a = b \/ LessThan(a, b)

\* a + b
Plus(a, b) ==
    IF a.m = 0 THEN b
    ELSE IF b.m = 0 THEN a
    ELSE LET lo == Min(a.e, b.e)
         IN  RoundRatio(a.m * Pow2(a.e - lo) + b.m * Pow2(b.e - lo), 1, lo)

\* a - b, for a >= b
Minus(a, b) ==
    IF b.m = 0 THEN a
    ELSE LET lo == Min(a.e, b.e)
             n == a.m * Pow2(a.e - lo) - b.m * Pow2(b.e - lo)
         IN  IF n = 0 THEN Zero ELSE RoundRatio(n, 1, lo)

\* a * b and a / b, zero included
Multiply(a, b) == IF a.m = 0 \/ b.m = 0 THEN Zero ELSE Times(a, b)
Divide(a, b) == IF a.m = 0 THEN Zero ELSE DividedBy(a, b)

\* The prices of the results: 1.00, 4.00, 7.23 and 19.99.
ChartPrices == {Literal(100, 100), Literal(400, 100), Literal(723, 100), Literal(1999, 100)}

PriceLists == {l \in SeqsUpTo(ChartPrices, MaxChartResults) : l # <<>>}

\* Math.min(...prices) and Math.max(...prices)
minPrice(prices) ==
    CHOOSE p \in {prices[k] : k \in 1..Len(prices)} :
        \A k \in 1..Len(prices) : AtMost(p, prices[k])

maxPrice(prices) ==
    CHOOSE p \in {prices[k] : k \in 1..Len(prices)} :
        \A k \in 1..Len(prices) : AtMost(prices[k], p)

\* (maxPrice - minPrice) / 6
bucketSize(prices) == Divide(Minus(maxPrice(prices), minPrice(prices)), Number(6))

\* minPrice + (bucketSize * i)
low(prices, i) == Plus(minPrice(prices), Multiply(bucketSize(prices), Number(i)))

\* minPrice + (bucketSize * (i + 1))
high(prices, i) == Plus(minPrice(prices), Multiply(bucketSize(prices), Number(i + 1)))

\* p >= low && (i === 5 ? p <= high : p < high)
InBucket(p, i, prices) ==
    /\ AtMost(low(prices, i), p)
    /\ IF i = 5 THEN AtMost(p, high(prices, i)) ELSE LessThan(p, high(prices, i))

\* The count of each of the six buckets.
PriceBuckets(prices) ==
    [b \in 1..6 |-> Cardinality({k \in 1..Len(prices) : InBucket(prices[k], b - 1, prices)})]

ChartIdle ==
    /\ chartPrices = <<>>
    /\ buckets = <<>>

\* The chart is rendered.
PriceDistributionChart ==
    /\ buckets = <<>>
    /\ buckets' = PriceBuckets(chartPrices)
    /\ UNCHANGED <<chartPrices, besidesChart>>

(***************************************************************************)
(* Specification.                                                          *)
(***************************************************************************)
InitServer(keys) ==
    /\ apiKeys = keys
    /\ phase = [i \in RequestIds |-> "None"]
    /\ cur = 0
    /\ req = NoRequest
    /\ intent = NoIntent
    /\ call = "none"
    /\ aiCalls = 0
    /\ fi = 1
    /\ outcome = NoOutcome
    /\ raw = <<>>
    /\ sources = "none"
    /\ results = <<>>
    /\ resp = NoResponse
    /\ posted = 0
    /\ net = {}
    /\ replies = [i \in RequestIds |-> NoResponse]

InitWith(keys) ==
    /\ InitServer(keys)
    /\ query = <<>>
    /\ isLoading = FALSE
    /\ searchResults = Null
    /\ history = <<>>
    /\ toast = NoToast
    /\ awaiting = [i \in RequestIds |-> NotAwaiting]
    /\ submitted = 0
    /\ shown = 0

\* Every feature but one in its state after construction.
FeaturesIdleBut(g) ==
    /\ IF g = "stores" THEN TRUE ELSE StoresIdle
    /\ IF g = "cache" THEN TRUE ELSE CacheIdle
    /\ IF g = "vendors" THEN TRUE ELSE VendorsIdle
    /\ IF g = "compare" THEN TRUE ELSE CompareIdle
    /\ IF g = "currency" THEN TRUE ELSE CurrencyIdle
    /\ IF g = "hooks" THEN TRUE ELSE HooksIdle
    /\ IF g \in {"filters", "filters+display"} THEN TRUE ELSE FiltersIdle
    /\ IF g \in {"display", "filters+display"} THEN TRUE ELSE DisplayIdle
    /\ IF g = "chart" THEN TRUE ELSE ChartIdle

FeaturesIdle == FeaturesIdleBut("none")

LocationIdle ==
    /\ locQuery = <<>>
    /\ location = Unresolved
    /\ relevant = NoRelevance

Init ==
    /\ \E keys \in SUBSET NeedsKey : InitWith(keys)
    /\ LocationIdle
    /\ FeaturesIdle

\* The steps the handler takes by itself.
HandlerStep ==
    \/ DetectCall
    \/ DetectTimeout
    \/ ShortCircuit
    \/ DiscoverCall
    \/ DiscoverTimeout
    \/ BeginFetching
    \/ FetchSkip
    \/ FetchCall
    \/ FetchTimeout
    \/ NormalizeResults
    \/ CapResults
    \/ Summarize
    \/ Respond

\* What clients and the external services do.
EnvStep ==
    \/ ApiClientPost
    \/ DetectReply
    \/ DetectError
    \/ DiscoverReply
    \/ DiscoverError
    \/ FetchReply
    \/ FetchError
    \/ InternalError

Next == HandlerStep \/ EnvStep

Spec == Init /\ [][Next]_vars

\* The page, the backend and the other API clients together.
PageStep ==
    \/ setQuery
    \/ SearchButton
    \/ handleExampleClick
    \/ handleVoiceResult
    \/ handleSearchResponse
    \/ handleSearchError

WireStep ==
    \/ PageRequestArrives
    \/ NetworkError

ServiceStep ==
    \/ DetectReply
    \/ DetectError
    \/ DiscoverReply
    \/ DiscoverError
    \/ FetchReply
    \/ FetchError
    \/ InternalError

NextUI == PageStep \/ WireStep \/ HandlerStep \/ ServiceStep \/ ApiClientPost

\* The deployment as set up by the start scripts: no API key configured yet.
InitUI ==
    /\ InitWith({})
    /\ LocationIdle
    /\ FeaturesIdle

SpecUI == InitUI /\ [][NextUI]_vars

\* The resolver on its own: any query of the vocabulary, resolved once.
InitLocation ==
    /\ InitWith({})
    /\ locQuery \in WordQueries
    /\ location = Unresolved
    /\ relevant = NoRelevance
    /\ FeaturesIdle

NextLocation == ResolveLocation

SpecLocation == InitLocation /\ [][NextLocation]_vars

\* The local-store fetcher on its own, for any city of the table.
InitStores ==
    /\ InitWith({})
    /\ LocationIdle
    /\ osmCity \in OsmCities
    /\ osmNext = 1
    /\ osmCall = 0
    /\ osmLog = <<>>
    /\ osmResult = NoStores
    /\ FeaturesIdleBut("stores")

NextStores == OsmCall \/ OsmReply \/ OsmError \/ OsmTimeout \/ OsmGiveUp

SpecStores == InitStores /\ [][NextStores]_vars

\* Source discovery on its own, with all its requests in flight at once.
InitCache ==
    /\ InitWith({})
    /\ LocationIdle
    /\ CacheIdle
    /\ FeaturesIdleBut("cache")

NextCache == CacheLookup \/ DiscoveryAnswers \/ DiscoveryFails \/ CacheWrite

SpecCache == InitCache /\ [][NextCache]_vars

\* Vendor enrichment of one result and its presentation.
InitVendors ==
    /\ InitWith({})
    /\ LocationIdle
    /\ vnMarket \in Marketplaces
    /\ vnType \in sourceTypes
    /\ vnCity \in VendorCities
    /\ vendor = NoVendor
    /\ vnShown = [v \in VendorViews |-> NotShown]
    /\ FeaturesIdleBut("vendors")

NextVendors == GenerateVendor \/ VendorInfoModal \/ VendorsSection \/ exportToCSV

SpecVendors == InitVendors /\ [][NextVendors]_vars

\* The comparison list of the page.
InitCompare ==
    /\ InitWith({})
    /\ LocationIdle
    /\ CompareIdle
    /\ FeaturesIdleBut("compare")

NextCompare == AddToCompare \/ RemoveFromCompare \/ clearCompare \/ CompareRender

SpecCompare == InitCompare /\ [][NextCompare]_vars

\* Conversion of one price between two currencies of the table, and back.
InitCurrency ==
    /\ InitWith({})
    /\ LocationIdle
    /\ cvPrice \in {Literal(p, 1) : p \in 1..MaxPrice}
    /\ cvFrom \in SwitcherCodes
    /\ cvTo \in SwitcherCodes
    /\ cvOut = NoNumber
    /\ cvBack = NoNumber
    /\ FeaturesIdleBut("currency")

NextCurrency == ConvertPrice \/ ConvertBack

SpecCurrency == InitCurrency /\ [][NextCurrency]_vars

\* The hooks of the page, from a first render that found what an earlier visit stored.
InitHooks ==
    /\ \/ /\ localStorage = [k \in StorageKeys |-> NoItem]
          /\ isDark = Load(NoItem, ParseBool(NoItem), FALSE)
          /\ history = <<>>
       \/ \E n \in SavedLengths, saved \in {<<>>, SavedFavorites} :
             /\ saved # <<>> => n = 0
             /\ localStorage =
                   [k \in StorageKeys |->
                       CASE k = "darkMode" -> StringifyBool(TRUE)
                         [] k = "favorites" -> StringifyList(saved, FavoriteKeys)
                         [] k = "searchHistory" ->
                               StringifyList(SubSeq(SavedHistory, 1, n), HistoryKeys)]
             /\ isDark = Load(StringifyBool(TRUE), ParseBool(StringifyBool(TRUE)), FALSE)
             /\ history = SubSeq(SavedHistory, 1, n)
    /\ favorites = Load(localStorage["favorites"], ParseList(localStorage["favorites"]), <<>>)
    /\ darkClass = FALSE
    /\ effects = StorageKeys
    /\ hookCalls = 0
    /\ toast = NoToast
    /\ InitServer({})
    /\ query = <<>>
    /\ isLoading = FALSE
    /\ searchResults = Null
    /\ awaiting = [i \in RequestIds |-> NotAwaiting]
    /\ submitted = 0
    /\ shown = 0
    /\ LocationIdle
    /\ FeaturesIdleBut("hooks")

NextHooks ==
    \/ Reload
    \/ RunEffect
    \/ ToggleDark
    \/ AddFavorite
    \/ RemoveFavorite
    \/ AddToHistory
    \/ clearHistory

SpecHooks == InitHooks /\ [][NextHooks]_vars

\* The filters of the page over the results of one response.
InitFilters ==
    /\ InitWith({})
    /\ LocationIdle
    /\ shownResults \in ShownLists
    /\ filters = DefaultFilters
    /\ sortBy = "relevance"
    /\ filteredResults = FilterAndSort(shownResults, DefaultFilters, "relevance")
    /\ FeaturesIdleBut("filters")

NextFilters ==
    \/ SetPriceRange
    \/ SetMinRating
    \/ SetAvailability
    \/ SetSourceTypes
    \/ SetAdvanced
    \/ SetSpecs
    \/ setSortBy

SpecFilters == InitFilters /\ [][NextFilters]_vars

\* The price distribution chart over the prices of one list of results.
InitChart ==
    /\ InitWith({})
    /\ LocationIdle
    /\ chartPrices \in PriceLists
    /\ buckets = <<>>
    /\ FeaturesIdleBut("chart")

NextChart == PriceDistributionChart

SpecChart == InitChart /\ [][NextChart]_vars

\* The currency switcher over the results of a response of any region of the backend.
InitDisplay ==
    /\ InitWith({})
    /\ LocationIdle
    /\ shownResults \in ShownLists
    /\ shownCurrency \in CurrencyCodes
    /\ selectedCurrency = "INR"
    /\ filters = DefaultFilters
    /\ sortBy = "relevance"
    /\ filteredResults = FilterAndSort(shownResults, DefaultFilters, "relevance")
    /\ FeaturesIdleBut("filters+display")

NextDisplay == setSelectedCurrency \/ setSortBy

SpecDisplay == InitDisplay /\ [][NextDisplay]_vars

\* The sort order and the currency switcher over the filtered results of one response.
InitSort ==
    /\ InitWith({})
    /\ LocationIdle
    /\ shownResults \in ShownLists \cup {Deals}
    /\ shownCurrency \in SwitcherCodes
    /\ selectedCurrency = "INR"
    /\ filters = DefaultFilters
    /\ sortBy = "relevance"
    /\ filteredResults = FilterAndSort(shownResults, DefaultFilters, "relevance")
    /\ FeaturesIdleBut("filters+display")

NextSort == setSortBy \/ setSelectedCurrency \/ SetMinRating \/ SetAvailability

SpecSort == InitSort /\ [][NextSort]_vars

\* The handler is scheduled whenever it has a step to take, and a pending external call
\* ends at the latest with its timeout; the services themselves owe nothing.
FairSpec == Spec /\ WF_vars(HandlerStep)

(***************************************************************************)
(* Properties.                                                             *)
(***************************************************************************)
\* The request being served has an intent that is flagged not searchable.
UnsearchableIntent == cur # 0 /\ intent.by # "none" /\ ~intent.searchable

\* The fetchers that returned data for the request being served.
DataFetchers == {f \in Fetchers : outcome[f] = "data"}

\* The request being served has passed the fetch stage and has its locals.
Fetched == cur # 0 /\ phase[cur] \in {"Normalizing", "Capped", "Summarized"}

\* C1: a request whose intent is flagged not searchable invokes no fetcher (and no
\* source discovery), goes from IntentResolved to Unsearchable only, and from there to
\* Done only, with the response success=false, results=[], results_count=0 and a
\* non-empty message.
C1_UnsearchableShortCircuits ==
    /\ [](UnsearchableIntent =>
            /\ phase[cur] \in {"IntentResolved", "Unsearchable"}
            /\ call = "none"
            /\ aiCalls = 1
            /\ sources = "none"
            /\ fi = 1
            /\ outcome = NoOutcome
            /\ raw = <<>>)
    /\ [](Serving("Unsearchable") =>
            /\ resp.status = 200
            /\ resp.success = FALSE
            /\ resp.results = <<>>
            /\ resp.results_count = 0
            /\ resp.message \notin {"", "null"})
    /\ [][(UnsearchableIntent /\ phase'[cur] # phase[cur]) =>
            \/ phase[cur] = "IntentResolved" /\ phase'[cur] = "Unsearchable"
            \/ phase[cur] = "Unsearchable" /\ phase'[cur] = "Done" /\ resp' = resp]_vars

C1_Witness == Serving("Unsearchable") /\ UnsearchableIntent /\ ~resp.success

C4_CapOnMergedList ==
    /\ IF cur # 0 /\ resp.status = 200
         THEN /\ Len(resp.results) <= req.max_results
              /\ resp.results_count = Len(resp.results)
         ELSE TRUE
    /\ (cur # 0 /\ phase[cur] \in {"Capped", "Summarized"}) =>
         /\ Len(results) = Min(Len(raw), req.max_results)
         /\ \A i \in 1..Len(results) : results[i] = NormalizeListing(raw[i])
    /\ Serving("Summarized") => resp.results = results /\ resp.results_count = Len(results)

C4_Witness ==
    /\ Serving("Summarized")
    /\ Len(raw) > req.max_results
    /\ Len(resp.results) = req.max_results

\* C5: a response with success=false has an empty result list, results_count 0 and a
\* message.
C5_UnsuccessfulResponseIsEmpty ==
    IF resp.status = 200
      THEN ~resp.success =>
             /\ resp.results = <<>>
             /\ resp.results_count = 0
             /\ resp.message \notin {"", "null"}
      ELSE TRUE

C5_Witness == Serving("Done") /\ resp.status = 200 /\ ~resp.success

\* C6: a search on a blank query shows an error and changes none of isLoading,
\* searchResults, history, nor sends a request; every request the page sends carries a
\* non-blank query; and the API answers a query shorter than 2 characters with 400
\* before any AI or fetcher call.
C6_BlankQueryRejected ==
    /\ [](\A r \in net : ~Blank(r.query) /\ r.query = Trim(r.query))
    /\ [](\A id \in RequestIds : awaiting[id] # NotAwaiting => ~Blank(awaiting[id]))
    /\ []((cur # 0 /\ Len(req.query) < 2) =>
            /\ phase[cur] = "Rejected"
            /\ resp.status = 400
            /\ aiCalls = 0
            /\ call = "none"
            /\ outcome = NoOutcome
            /\ raw = <<>>)
    /\ [][(toast' = EnterQueryToast /\ toast # EnterQueryToast) =>
            UNCHANGED <<isLoading, searchResults, history, posted, net, awaiting,
                        backendVars>>]_vars
    /\ [][(net' # net /\ posted' # posted) => (~Blank(query) \/ ~Blank(query'))]_vars

C6_Witness ==
    /\ toast = EnterQueryToast
    /\ \E id \in RequestIds : phase[id] = "Rejected"
    /\ ~isLoading
    /\ net = {}

\* The order of the request state machine as the design states it.
StatedOrder ==
    {<<"Received", "IntentResolved">>,
     <<"IntentResolved", "Unsearchable">>,
     <<"Unsearchable", "Done">>,
     <<"IntentResolved", "SourcesDiscovered">>,
     <<"SourcesDiscovered", "Fetching">>,
     <<"Fetching", "Normalizing">>,
     <<"Normalizing", "Capped">>,
     <<"Capped", "Summarized">>,
     <<"Summarized", "Done">>}

\* A request is accepted once it has passed validation.
Accepted == Active \cup {"Unsearchable"}

\* The request changes state along one of the given transitions, or not at all.
Follows(order) ==
    \A id \in RequestIds :
        (phase[id] # "None" /\ phase'[id] # phase[id]) => <<phase[id], phase'[id]>> \in order

\* C7 as stated: every accepted request moves only along the stated order (which ends in
\* Done and has no other exit).
C7_StatedOrderOnly == [][Follows(StatedOrder)]_vars

\* C7, amended: every accepted request eventually reaches Done or, when an unexpected
\* internal failure interrupts it, Failed, even if no external service ever answers; it
\* moves only along the stated order or from a non-terminal state to Failed; and it
\* never leaves Done or Failed.
C7_Terminates ==
    /\ [][Follows(StatedOrder \cup {<<a, "Failed">> : a \in Active})]_vars
    /\ \A id \in RequestIds :
          (phase[id] \in Accepted) ~> (phase[id] \in {"Done", "Failed"})

C7_Witness ==
    /\ \E id \in RequestIds : phase[id] = "Done"
    /\ \E id \in RequestIds : phase[id] = "Failed"

\* C8: when the AI detection call fails or times out the intent is the heuristic one
\* (searchable, the raw query as canonical name, no brands), the request goes on to
\* IntentResolved without a response yet, and it is never short-circuited.
C8_HeuristicIntentOnAiFailure ==
    /\ []((cur # 0 /\ intent.by = "heuristic") =>
            /\ intent.searchable
            /\ intent.canonical_name = req.query
            /\ intent.brands = <<>>
            /\ phase[cur] \in Active \ {"Received"})
    /\ [][(cur # 0 /\ call = "ai_detect") =>
            /\ phase'[cur] = "IntentResolved"
            /\ intent'.by \in {"ai", "heuristic"}
            /\ resp' = NoResponse]_vars
    /\ [][(cur # 0 /\ intent.by = "heuristic") => phase'[cur] # "Unsearchable"]_vars

C8_Witness ==
    /\ Serving("Fetching")
    /\ intent.by = "heuristic"
    /\ sources # "none"
    /\ call \in Fetchers

\* C9: a failed request answers 500 with a detail and no result list; 400 is the answer
\* to a rejected (too short) query only and 500 to a failed request only; unsearchable
\* and completed requests answer 200, also when fetchers failed, and no fetcher's
\* failure produces an error status.
C9_ErrorStatuses ==
    /\ [](resp.status \in {0, 200, 400, 500})
    /\ [](cur # 0 =>
            /\ resp.status = 500 <=> phase[cur] = "Failed"
            /\ resp.status = 400 <=> phase[cur] = "Rejected"
            /\ resp.status = 400 => Len(req.query) < 2
            /\ phase[cur] \in {"Unsearchable", "Summarized", "Done"} => resp.status = 200)
    /\ [](resp.status = 500 => DOMAIN resp = {"status", "detail"})
    /\ [][(cur # 0 /\ call # "none") => resp'.status = resp.status]_vars

C9_Witness ==
    /\ Serving("Failed")
    /\ resp.status = 500
    /\ "results" \notin DOMAIN resp
    /\ \E id \in RequestIds : phase[id] = "Done"

\* No country keyword and no city name occurs in the query.
NoLocationKeyword(q) ==
    /\ \A i \in 1..Len(COUNTRY_KEYWORDS) : ~KeywordMatches(COUNTRY_KEYWORDS[i].kw, q)
    /\ \A i \in 1..Len(CITIES_DB) : ~KeywordMatches(CITIES_DB[i].kw, q)

\* C10: the resolved location always has a currency code of the currency table, and
\* a query without a country or city keyword resolves to the global default with USD.
C10_CurrencyAlwaysResolved ==
    location # Unresolved =>
        /\ location.currency_code # "null"
        /\ location.currency_code \in CurrencyCodes
        /\ NoLocationKeyword(locQuery) =>
              /\ location.country = DefaultCountry
              /\ location.city = "null"
              /\ location.currency_code = "USD"

C10_Witness ==
    /\ location # Unresolved
    /\ locQuery # <<>>
    /\ NoLocationKeyword(locQuery)
    /\ location.currency_code = "USD"

\* The keyword is a run of whole words of the query.
WholeWordRun(kw, q) ==
    \E i \in 1..(Len(q) - Len(kw) + 1) : SubSeq(q, i, i + Len(kw) - 1) = kw

\* The entries of the city table with a name of several words that the query contains.
MultiWordCities(q) ==
    {i \in 1..Len(CITIES_DB) : Len(CITIES_DB[i].kw) > 1 /\ WholeWordRun(CITIES_DB[i].kw, q)}

\* C11: a query that contains a multi-word city name resolves to a multi-word city it
\* contains (to exactly that city when it contains one), with that city's state, and
\* never to a city whose name is only a part of it.
C11_MultiWordCityIsOneMatch ==
    (location # Unresolved /\ MultiWordCities(locQuery) # {}) =>
        /\ \E i \in MultiWordCities(locQuery) :
              /\ location.city = CITIES_DB[i].city
              /\ location.state = CITIES_DB[i].state
        /\ \A j \in 1..Len(CITIES_DB) :
              (\E i \in MultiWordCities(locQuery) :
                  /\ CITIES_DB[j].kw # CITIES_DB[i].kw
                  /\ WholeWordRun(CITIES_DB[j].kw, CITIES_DB[i].kw))
              => location.city # CITIES_DB[j].city

C11_Witness ==
    /\ location # Unresolved
    /\ WholeWordRun(<<"new", "delhi">>, locQuery)
    /\ location.city = "New Delhi"
    /\ location.country = "india"

\* The words of a word sequence.
WordsOf(q) == {q[i] : i \in 1..Len(q)}

\* C12: a city or country keyword matches a query only where it is a run of whole
\* words of the query, so the resolved city and country come from such a run (or are
\* the default); and a store is relevant only for a product keyword that is a whole
\* word of the query and of the store's text.
C12_WholeWordMatchOnly ==
    location # Unresolved =>
        /\ \A i \in 1..Len(CITIES_DB) :
              KeywordMatches(CITIES_DB[i].kw, locQuery) <=> WholeWordRun(CITIES_DB[i].kw, locQuery)
        /\ \A i \in 1..Len(COUNTRY_KEYWORDS) :
              KeywordMatches(COUNTRY_KEYWORDS[i].kw, locQuery)
                 <=> WholeWordRun(COUNTRY_KEYWORDS[i].kw, locQuery)
        /\ location.city # "null" =>
              \E i \in 1..Len(CITIES_DB) :
                 WholeWordRun(CITIES_DB[i].kw, locQuery) /\ location.city = CITIES_DB[i].city
        /\ location.country # DefaultCountry =>
              \/ \E i \in 1..Len(COUNTRY_KEYWORDS) :
                    /\ WholeWordRun(COUNTRY_KEYWORDS[i].kw, locQuery)
                    /\ location.country = COUNTRY_KEYWORDS[i].country
              \/ \E i \in 1..Len(CITIES_DB) :
                    /\ WholeWordRun(CITIES_DB[i].kw, locQuery)
                    /\ location.country = CITIES_DB[i].country
        /\ \A s \in StoreTexts :
              relevant[s] => WordsOf(locQuery) \cap WordsOf(s) # {}

C12_Witness ==
    /\ location # Unresolved
    /\ "delhivery" \in WordsOf(locQuery)
    /\ "tiles" \in WordsOf(locQuery)
    /\ location.country = DefaultCountry
    /\ location.city = "null"
    /\ relevant[<<"tiles">>]
    /\ ~relevant[<<"textiles">>]

\* C13: the local-store fetcher contacts the map-data servers one at a time in their
\* fixed order, a server that answers is the last one contacted and its stores are the
\* result, and the fetcher returns no stores (not an error) without an answer only
\* after all servers have failed; a result, once returned, stands.
C13_FirstServerThatAnswersWins ==
    /\ [](/\ Len(osmLog) <= Len(OVERPASS_SERVERS)
          /\ \A i \in 1..Len(osmLog) :
                /\ osmLog[i].server = OVERPASS_SERVERS[i]
                /\ osmLog[i].outcome = "ok" => (i = Len(osmLog) /\ osmCall = 0)
          /\ osmCall # 0 => osmCall = Len(osmLog) + 1
          /\ osmResult.kind = "pending" =>
                \A i \in 1..Len(osmLog) : osmLog[i].outcome # "ok"
          /\ osmResult.kind = "data" =>
                /\ osmLog # <<>>
                /\ osmLog[Len(osmLog)].outcome = "ok"
                /\ osmResult.server = osmLog[Len(osmLog)].server
                /\ \A k \in 1..Len(osmResult.stores) :
                      /\ osmResult.stores[k].server = osmResult.server
                      /\ osmResult.stores[k].city = osmCity
          /\ osmResult.kind = "none" =>
                /\ Len(osmLog) = Len(OVERPASS_SERVERS)
                /\ \A i \in 1..Len(osmLog) : osmLog[i].outcome # "ok"
                /\ osmResult.stores = <<>>
          /\ osmResult.kind \in {"pending", "data", "none"})
    /\ [][osmResult.kind # "pending" => UNCHANGED <<osmResult, osmLog, osmCall>>]_vars

C13_Witness ==
    /\ osmResult.kind = "data"
    /\ Len(osmLog) = 2
    /\ osmLog[1].outcome # "ok"
    /\ osmResult.server = OVERPASS_SERVERS[2]
    /\ osmResult.stores # <<>>

\* The list is the whole list of one discovery call for the key.
CompleteList(l, key) ==
    /\ Len(l) = SourcesPerList
    /\ l[1].call \in 1..discoveries
    /\ \A i \in 1..Len(l) : l[i] = [call |-> l[1].call, key |-> key, k |-> i]

\* The entries the cache holds for a key.
EntriesFor(c, key) == {e \in c : e.key = key}

\* C14: with the requests' lookups, discovery calls and cache writes interleaved in any
\* way, the cache never holds more than one entry for a key and holds one when all
\* requests are done and one of them has written, every cached list and every list a
\* request obtained is the whole list of one discovery call for that key (or the static
\* table after a failed call), and a write changes the entry of the writer's key only.
C14_CacheRacesAreHarmless ==
    /\ [](\A key \in CacheKeys :
            /\ Cardinality(EntriesFor(cache, key)) <= 1
            /\ \A e \in EntriesFor(cache, key) : CompleteList(e.list, key))
    /\ [](\A e \in cache : e.key \in CacheKeys)
    /\ [](\A r \in Discoverers :
            rcPc[r] = "done" =>
                \/ CompleteList(rcList[r], rcKey[r])
                \/ rcList[r] = StaticList(rcKey[r]))
    /\ [](\A r \in Discoverers :
            (rcPc[r] = "done" /\ CompleteList(rcList[r], rcKey[r])) =>
                Cardinality(EntriesFor(cache, rcKey[r])) = 1)
    /\ [][\A key \in CacheKeys :
            EntriesFor(cache', key) # EntriesFor(cache, key) =>
                \E r \in Discoverers :
                    /\ rcKey[r] = key
                    /\ rcPc[r] = "answered"
                    /\ rcPc'[r] = "done"
                    /\ EntriesFor(cache', key) = {[key |-> key, list |-> rcList[r]]}]_vars

\* Two requests missed the cache for the same key, both called, both wrote.
C14_Witness ==
    \E r1, r2 \in Discoverers :
        /\ r1 # r2
        /\ rcKey[r1] = rcKey[r2]
        /\ rcPc[r1] = "done" /\ rcPc[r2] = "done"
        /\ rcCall[r1] # 0 /\ rcCall[r2] # 0
        /\ CompleteList(rcList[r1], rcKey[r1])
        /\ CompleteList(rcList[r2], rcKey[r2])
        /\ rcList[r1] # rcList[r2]
        /\ Cardinality(EntriesFor(cache, rcKey[r1])) = 1

\* The vendor of the result is classified as an online marketplace.
OnlineMarketplaceVendor == vendor # NoVendor /\ vendor.vendor_type = "Online Marketplaces"

\* C15: a result whose vendor is classified as an online marketplace has its phone and
\* e-mail fields marked as not available, in the vendor block and in every view that
\* presents them.
C15_OnlineVendorContactsUnavailable ==
    OnlineMarketplaceVendor =>
        /\ vendor.vendor_phone = NotAvailable
        /\ vendor.vendor_email = NotAvailable
        /\ \A v \in VendorViews :
                vnShown[v] # NotShown =>
                    vnShown[v] = [email |-> NotAvailable, phone |-> NotAvailable]

\* An online-marketplace vendor whose card presents a generated phone number.
C15_Witness ==
    /\ OnlineMarketplaceVendor
    /\ vnMarket = "Amazon.in"
    /\ vnShown["card"].phone = "+91 98765 43210"

\* No two entries of the list have the same name and source.
NoDuplicates(list) ==
    \A i, j \in 1..Len(list) :
        (list[i].name = list[j].name /\ list[i].source = list[j].source) => i = j

\* C16: whatever addToCompare, removeFromCompare and clearCompare calls were made, several
\* of them between two renders included, the compare list has at most 4 entries and no
\* two of them share name and source (so an addToCompare that would break either bound
\* left the list as it was).
C16_CompareListBounded ==
    /\ Len(compareList) <= MaxCompare
    /\ NoDuplicates(compareList)

\* Two products added from a render that showed three: a list of five.
C16_Witness ==
    /\ Len(compareSeen) = 3
    /\ Len(compareList) = 5
    /\ NoDuplicates(compareList)

\* One unit in the last place for each of the four operations of a round trip.
RoundingUlps == 4

\* b is a, up to RoundingUlps units in the last place of a.
WithinTolerance(a, b) ==
    LET lo == IF a.e < b.e THEN a.e ELSE b.e
        x == a.m * Pow2(a.e - lo)
        y == b.m * Pow2(b.e - lo)
    IN  /\ a.e - b.e \in {-1, 0, 1}
        /\ x - y <= RoundingUlps * Pow2(a.e - lo)
        /\ y - x <= RoundingUlps * Pow2(a.e - lo)

\* C17 as stated: a price converted from A to B and back is the original price up to
\* rounding, and a price converted to its own currency is the original price.
C17_RoundTripAndIdentity ==
    /\ cvBack # NoNumber => WithinTolerance(cvPrice, cvBack)
    /\ (cvOut # NoNumber /\ cvFrom = cvTo) => cvOut = cvPrice

\* C17, amended: a price converted from A to B and back is the original price up to
\* rounding; a price converted to its own currency is the original price up to rounding,
\* and exactly the original price when that currency is the base currency INR.
C17_RoundTripWithinTolerance ==
    /\ cvBack # NoNumber => WithinTolerance(cvPrice, cvBack)
    /\ (cvOut # NoNumber /\ cvFrom = cvTo) => WithinTolerance(cvPrice, cvOut)
    /\ (cvOut # NoNumber /\ cvFrom = cvTo /\ cvFrom = "INR") => cvOut = cvPrice

\* A price converted to its own currency, not the base, came out changed, within the
\* tolerance, and was converted once more.
C17_Witness ==
    /\ cvFrom = cvTo
    /\ cvFrom # "INR"
    /\ cvOut # NoNumber
    /\ cvOut # cvPrice
    /\ WithinTolerance(cvPrice, cvOut)
    /\ cvBack # NoNumber
    /\ WithinTolerance(cvPrice, cvBack)

\* No two entries of the history have the same query.
DistinctQueries(h) == \A i, j \in 1..Len(h) : h[i].query = h[j].query => i = j

\* The entries of h other than the one of query q, in their order.
Others(h, q) == SelectSeq(h, LAMBDA e : e.query # q)

\* C18: whatever addToHistory and clearHistory calls were made, the history has at most 10
\* entries and no two with the same query; a call of addToHistory leaves its query first
\* and the earlier entries behind it in their order, the oldest dropped beyond 10; a call
\* of clearHistory leaves the history empty.
C18_HistoryBoundedAndOrdered ==
    /\ [](Len(history) <= MaxHistory /\ DistinctQueries(history))
    /\ [][(hookCalls' = hookCalls + 1 /\ history' # history /\ history' # <<>>) =>
            /\ Tail(history') =
                 SubSeq(Others(history, history'[1].query), 1, Len(history') - 1)
            /\ Len(history') = Min(MaxHistory, Len(Others(history, history'[1].query)) + 1)]_vars
    /\ [][(hookCalls' = hookCalls + 1 /\ toast' = InfoToast("Search history cleared")
             /\ toast' # toast) => history' = <<>>]_vars

\* A full history in which a query never searched before went first and the oldest was
\* dropped.
C18_Witness ==
    /\ Len(history) = MaxHistory
    /\ history[1].query = "Pixel 8"
    /\ \A i \in 1..Len(history) : history[i].query # SavedQueries[Len(SavedQueries)]
    /\ hookCalls > 0

\* C19: when no effect is due, the text stored under each of the three keys is the text of
\* the state in memory, and a reload then leaves the three states as they were.
C19_StorageMirrorsState ==
    /\ [](effects = {} => \A key \in StorageKeys : localStorage[key] = Stored(key))
    /\ [][(effects = {} /\ effects' = StorageKeys) =>
              /\ isDark' = isDark
              /\ favorites' = favorites
              /\ history' = history]_vars

\* After changes to all three states and their effects, the page was loaded again.
C19_Witness ==
    /\ effects = StorageKeys
    /\ hookCalls = MaxHookCalls
    /\ isDark
    /\ Len(favorites) = 1
    /\ history # <<>> /\ history[1].query = "iPhone 16"
    /\ \A key \in StorageKeys : localStorage[key] = Stored(key)

\* How often a result occurs in a list.
Occurrences(list, r) == Cardinality({i \in 1..Len(list) : list[i] = r})

\* The criteria the claim lists: price within the range, bounds included, rating at least
\* the floor, availability in the selected set, and brand, model, color, size and material
\* equal to the selected value where one is selected.
MeetsListed(r) ==
    /\ filters.priceRange[1] <= r.price /\ r.price <= filters.priceRange[2]
    /\ r.rating >= filters.minRating
    /\ r.availability \in filters.availability
    /\ filters.selectedBrand # NoSelection => r.brand = filters.selectedBrand
    /\ filters.selectedModel # NoSelection => r.model = filters.selectedModel
    /\ filters.selectedColor # NoSelection => r.color = filters.selectedColor
    /\ filters.selectedSize # NoSelection => r.size = filters.selectedSize
    /\ filters.selectedMaterial # NoSelection => r.material = filters.selectedMaterial

\* The result has specifications and they differ from a selected one.
FailsSelectedSpec(r) ==
    r.specifications.has /\ \E sel \in filters.selectedSpecs : r.specifications[sel[1]] # sel[2]

\* C20 as stated: the filtered list holds exactly the results that meet the listed
\* criteria, each as often as the response holds it and unchanged.
C20_ExactlyTheListedCriteria ==
    \A i \in 1..Len(Catalog) :
        Occurrences(filteredResults, Catalog[i]) =
            IF MeetsListed(Catalog[i]) THEN Occurrences(shownResults, Catalog[i]) ELSE 0

\* C20, amended: the filtered list holds exactly the results that meet the listed criteria
\* and whose specifications, when they have any, equal every selected specification value;
\* each as often as the response holds it and unchanged, and nothing else.
C20_ListedCriteriaAndSpecs ==
    /\ \A i \in 1..Len(Catalog) :
          Occurrences(filteredResults, Catalog[i]) =
              IF MeetsListed(Catalog[i]) /\ ~FailsSelectedSpec(Catalog[i])
                THEN Occurrences(shownResults, Catalog[i])
                ELSE 0
    /\ \A i \in 1..Len(filteredResults) : \E j \in 1..Len(shownResults) :
          filteredResults[i] = shownResults[j]

\* Filters on price, rating, availability, brand and a specification leave one result; a
\* result at the upper bound of the price range is in, one that differs only in the
\* selected specification is out.
C20_Witness ==
    /\ shownResults = Catalog
    /\ filters.priceRange = <<200, 300>>
    /\ filters.minRating = 45
    /\ filters.availability = {"In Stock"}
    /\ filters.selectedBrand = "Apple"
    /\ filters.selectedSpecs = {<<"RAM", "8GB">>}
    /\ filteredResults = <<Catalog[2]>>

\* C21: whatever the filters are, no displayed result has a source type that is not in
\* the selected source-type set.
C21_SourceTypeFilterApplied ==
    \A i \in 1..Len(filteredResults) : filteredResults[i].vendor_type \in filters.sourceTypes

\* "Online Marketplaces" is unchecked and a result of an online marketplace is displayed.
C21_Witness ==
    /\ shownResults = Catalog
    /\ filters.sourceTypes = {"Global Suppliers", "Local Markets"}
    /\ \E i \in 1..Len(filteredResults) : filteredResults[i].vendor_type = "Online Marketplaces"

\* C22: when specification filters are selected, every displayed result has
\* specifications, and they hold the selected value for each selected name.
C22_DisplayedResultsHaveSelectedSpecs ==
    \A i \in 1..Len(filteredResults) : \A sel \in filters.selectedSpecs :
        /\ filteredResults[i].specifications.has
        /\ filteredResults[i].specifications[sel[1]] = sel[2]

\* RAM 8GB is selected and a result without specifications is displayed, while the
\* results whose RAM differs or is missing are not.
C22_Witness ==
    /\ shownResults = Catalog
    /\ filters.selectedSpecs = {<<"RAM", "8GB">>}
    /\ \E i \in 1..Len(filteredResults) : ~filteredResults[i].specifications.has
    /\ \A i \in 1..Len(filteredResults) :
          filteredResults[i] # Catalog[1] /\ filteredResults[i] # Catalog[5]

\* The results of the response that pass the filters, in the order of the response.
PassingResults == SelectSeq(shownResults, LAMBDA r : Passes(r, filters))

\* a <= b, for two numbers
NumberLeq(a, b) == a.e < b.e \/ (a.e = b.e /\ a.m <= b.m)

\* C23: the displayed list is a permutation of the results that pass the filters, in
\* non-decreasing price for price-low, non-increasing price for price-high,
\* non-increasing rating for rating, ascending name for name and the order of the
\* response for relevance; for the two price orders the prices converted to the selected
\* currency are in the same order.
C23_DisplayedListIsSorted ==
    /\ \A k \in 1..Len(shownResults) :
          Occurrences(filteredResults, shownResults[k]) = Occurrences(PassingResults, shownResults[k])
    /\ Len(filteredResults) = Len(PassingResults)
    /\ sortBy = "relevance" => filteredResults = PassingResults
    /\ \A i, j \in 1..Len(filteredResults) :
          i < j =>
            /\ sortBy = "price-low" =>
                  /\ filteredResults[i].price <= filteredResults[j].price
                  /\ NumberLeq(DisplayedPrices[i], DisplayedPrices[j])
            /\ sortBy = "price-high" =>
                  /\ filteredResults[i].price >= filteredResults[j].price
                  /\ NumberLeq(DisplayedPrices[j], DisplayedPrices[i])
            /\ sortBy = "rating" => filteredResults[i].rating >= filteredResults[j].rating
            /\ sortBy = "name" =>
                  NameRank(filteredResults[i].name) <= NameRank(filteredResults[j].name)

\* The whole catalog, priced in pounds, sorted by rating and shown in dollars.
C23_Witness ==
    /\ shownResults = Catalog
    /\ Len(filteredResults) = Len(Catalog)
    /\ sortBy = "rating"
    /\ filteredResults # PassingResults
    /\ shownCurrency = "GBP"
    /\ selectedCurrency = "USD"

\* SearchPage rendering: the Search Unavailable panel is on the page.
ShowsSearchUnavailable ==
    IF searchResults = Null \/ isLoading THEN FALSE ELSE ~searchResults.success

\* SearchPage rendering: product results are on the page.
ShowsResults ==
    IF searchResults = Null \/ isLoading THEN FALSE ELSE searchResults.success

\* The last notification reports a failed request.
ShowsSearchFailed == toast.kind = "error" /\ toast # EnterQueryToast

\* C24: once the page has received a response with success = false it shows the warning
\* and the Search Unavailable panel and no results; once a request has failed with an
\* error status or on the network it shows the error notification and neither the panel
\* nor results.
C24_FailureOutcomesShownApart ==
    ~isLoading =>
        /\ toast = UnavailableToast => ShowsSearchUnavailable /\ searchResults.results = <<>>
        /\ ShowsSearchFailed => ~ShowsSearchUnavailable /\ ~ShowsResults /\ searchResults = Null

\* A failed request with nothing else on the page.
C24_Witness == ~isLoading /\ ShowsSearchFailed /\ searchResults = Null /\ posted > 0

\* The requests started by handleSearch whose await has not returned yet.
InFlight == {id \in RequestIds : awaiting[id] # NotAwaiting}

\* C25: isLoading is true while a request started by handleSearch is in flight and false
\* when every started request has completed; no search starts while isLoading is true, so
\* at most one request is in flight.
C25_LoadingWhileInFlight ==
    /\ InFlight # {} => isLoading
    /\ InFlight = {} => ~isLoading
    /\ Cardinality(InFlight) <= 1

\* One search in flight, the page loading.
C25_Witness == Cardinality(InFlight) = 1 /\ isLoading /\ posted = 1

\* C26: when every request has completed and the page shows a response, it is the
\* response to the query submitted last.
C26_LatestQueryShown ==
    (InFlight = {} /\ searchResults # Null) => shown = submitted

\* Two searches, both completed, the response to the second on the page.
C26_Witness == InFlight = {} /\ submitted = 2 /\ shown = 2 /\ searchResults # Null

\* C27: the favorites never hold two entries with the same name and source; addFavorite
\* of a product that is in the list leaves the list as it is, and of one that is not
\* appends it; after removeFavorite of a product the product is not in the list and the
\* other entries are kept in their order.
C27_FavoritesHaveNoDuplicates ==
    /\ [](NoDuplicates(favorites))
    /\ [][\A product \in FavoriteProducts :
             /\ (addFavorite(product) /\ InList(favorites, product)) => favorites' = favorites
             /\ (addFavorite(product) /\ ~InList(favorites, product)) =>
                    /\ Len(favorites') = Len(favorites) + 1
                    /\ SubSeq(favorites', 1, Len(favorites)) = favorites
                    /\ InList(<<favorites'[Len(favorites')]>>, product)
             /\ removeFavorite(product) =>
                    /\ ~InList(favorites', product)
                    /\ favorites' = SelectSeq(favorites,
                                      LAMBDA p : p.name # product.name \/ p.source # product.source)]_vars

\* A product was added to the two stored favorites and the second of the three removed.
C27_Witness ==
    /\ Len(favorites) = 2
    /\ favorites[1] = SavedFavorites[1]
    /\ favorites[2].source = "Flipkart"
    /\ toast = InfoToast("Removed from favorites")

\* The lowest price among the displayed results.
LowestDisplayedPrice ==
    CHOOSE m \in {filteredResults[i].price : i \in 1..Len(filteredResults)} :
        \A i \in 1..Len(filteredResults) : m <= filteredResults[i].price

BucketsOf(k) == {b \in 1..6 : InBucket(chartPrices[k], b - 1, chartPrices)}

\* C29: the six buckets of the chart partition the results: every price is counted in
\* exactly one bucket and the counts add up to the number of results, also when all prices
\* are equal and for the lowest and the highest price.
C29_BucketsPartitionResults ==
    buckets # <<>> =>
        /\ \A k \in 1..Len(chartPrices) : Cardinality(BucketsOf(k)) = 1
        /\ buckets[1] + buckets[2] + buckets[3] + buckets[4] + buckets[5] + buckets[6]
              = Len(chartPrices)

\* All prices equal: the buckets have width zero and the last one counts every result.
C29_Witness ==
    /\ Len(chartPrices) = 3
    /\ \A k \in 1..Len(chartPrices) : chartPrices[k] = chartPrices[1]
    /\ buckets = <<0, 0, 0, 0, 0, 3>>

\* C30: whatever currency of the backend's regions the results carry and whatever currency
\* is selected, the converted price of every displayed result is a number.
C30_ConversionIsDefined ==
    \A i \in 1..Len(filteredResults) : DisplayedPrices[i] # TypeError

\* Results in dirhams shown in euros.
C30_Witness ==
    /\ filteredResults # <<>>
    /\ shownCurrency = "AED"
    /\ selectedCurrency = "EUR"
    /\ \A i \in 1..Len(filteredResults) : DisplayedPrices[i].m > 0

====
